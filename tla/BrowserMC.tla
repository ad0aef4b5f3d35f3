----------------------------- MODULE BrowserMC -----------------------------
(* The parts of the browser hub, the page side of its multiplexer and the          *)
(* directory picker of the page.  They share no state that a step of another reads: *)
(* a behaviour moves one of them, and the states of all add up.                     *)
EXTENDS HubAsks, HubRequest, HubAggregate, HubFollow, PageMux, DirectoryBrowser

CONSTANT hLocal
VARIABLE moving

MCUp == [d \in 1..3 |-> IF d = 3 THEN 1 ELSE 0]

\* What does not move has one initial state.
MCInit ==
  /\ moving \in {"asks", "request", "aggregate", "follow", "page", "picker"}
  /\ AsksInit /\ ReqInit /\ AggInit /\ FollowInit /\ PageInit /\ PickInit
  /\ moving # "request" => perHost = {} /\ hubSelected = NoCarrier
  /\ moving # "aggregate" => endpoint = "control" /\ \A h \in AggHosts : value[h] = NothingHeld(Ids)
  /\ moving # "picker" => route = hLocal

InAsks ==
  moving = "asks" /\ UNCHANGED <<reqVars, aggVars, followVars, pageVars, pickVars, moving>>
InRequest ==
  moving = "request" /\ UNCHANGED <<askVars, aggVars, followVars, pageVars, pickVars, moving>>
InAggregate ==
  moving = "aggregate" /\ UNCHANGED <<askVars, reqVars, followVars, pageVars, pickVars, moving>>
InFollow ==
  moving = "follow" /\ UNCHANGED <<askVars, reqVars, aggVars, pageVars, pickVars, moving>>
InPage ==
  moving = "page" /\ UNCHANGED <<askVars, reqVars, aggVars, followVars, pickVars, moving>>
InPicker ==
  moving = "picker" /\ UNCHANGED <<askVars, reqVars, aggVars, followVars, pageVars, moving>>

MCNext ==
  \/ \E h \in AskHosts :
       \/ InAsks /\ Connect(h)
       \/ InAsks /\ AskFrame(h)
       \/ InAsks /\ AskOpened(h)
       \/ \E id \in hostAsks[h] : InAsks /\ AskClosed(h, id)
  \/ \E a \in given : InAsks /\ AnswerArrives(a)
  \/ \E s \in shown : InAsks /\ Answer(s)
  \/ InAsks /\ PageFrame
  \/ \E h \in Carriers \cup {NoCarrier} :
       \/ InRequest /\ SelectHost(h)
       \/ InRequest /\ Mount(h)
  \/ \E r \in Requests : InRequest /\ Send(r)
  \/ \E hosts \in SUBSET Carriers : InRequest /\ Reconfigure(hosts)
  \/ InRequest /\ Rejected
  \/ InRequest /\ BodyFails
  \/ InRequest /\ CallOne
  \/ InRequest /\ CallFile
  \/ InRequest /\ CallAll
  \/ InRequest /\ PageLeaves
  \/ \E h \in Carriers :
       \/ InRequest /\ HostAnswers(h)
       \/ InRequest /\ TimesOut(h)
  \/ \E h \in AggHosts :
       \/ InAggregate /\ ChangeHost(h)
       \/ InAggregate /\ RestartHost(h)
       \/ InAggregate /\ ConnectHost(h)
       \/ InAggregate /\ BreakHost(h)
  \/ InAggregate /\ TakePacket
  \/ InAggregate /\ BaselineDeadline
  \/ InAggregate /\ ReopenAggregate
  \/ InFollow /\ AgentActs
  \/ InFollow /\ OpenSource
  \/ InFollow /\ SnapshotArrives
  \/ InFollow /\ BootstrapTimeout
  \/ InFollow /\ FollowAgain
  \/ \E transient \in BOOLEAN : InFollow /\ SourceFails(transient)
  \/ \E lost \in 0..1 : InFollow /\ EventArrives(lost)
  \/ \E r \in Records :
       \/ InPage /\ OpenRecord(r)
       \/ InPage /\ CancelRecord(r)
  \/ InPage /\ Shutdown
  \/ \E e \in DOMAIN sockets :
       \/ InPage /\ SocketOpens(e)
       \/ InPage /\ SocketClosing(e)
       \/ InPage /\ SocketClosed(e)
       \/ InPage /\ MessageArrives(e)
       \/ \E r \in Records : InPage /\ ServerSends(e, r)
  \/ InPicker /\ Pick
  \/ InPicker /\ Advance
  \/ InPicker /\ Jump
  \/ InPicker /\ OpenEditor
  \/ InPicker /\ Type
  \/ InPicker /\ Submit
  \/ InPicker /\ cancelPathEdit
  \/ InPicker /\ DraftRests
  \/ InPicker /\ NewFolder
  \/ InPicker /\ LeaveFolder
  \/ InPicker /\ confirmCreate
  \/ InPicker /\ FolderMade
  \/ InPicker /\ FolderRefused
  \/ InPicker /\ OwnerOpens
  \/ InPicker /\ OwnerCloses
  \/ InPicker /\ Adopt
  \/ InPicker /\ NotAdopted
  \/ InPicker /\ ChooseHost
  \/ InPicker /\ ChosenElsewhere
  \/ \E s \in scans :
       \/ InPicker /\ LegWaitOver(s)
       \/ InPicker /\ Listed(s)
       \/ InPicker /\ ListingFails(s)

\* None of the fair actions is enabled in a part that does not move.
MCSpec ==
  /\ MCInit
  /\ [][MCNext]_<<askVars, reqVars, aggVars, followVars, pageVars, pickVars, moving>>
  /\ WF_aggVars(TakePacket) /\ WF_aggVars(BaselineDeadline) /\ TimersRun
=============================================================================
