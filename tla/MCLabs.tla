------------------------------- MODULE MCLabs -------------------------------
(* The queue of labs/blocking_queue and the connection of labs/tcp_framing *)
(* are programs of their own: in a behaviour one of them runs, and the     *)
(* other is not started.                                                   *)
EXTENDS BlockingQueue, TcpFraming

Text(payload) == message(MESSAGE_TYPE_TEXT, payload)
Ping == message(MESSAGE_TYPE_PING, <<>>)

Exchange(sends, receives, foreign) ==
  [sends |-> sends, receives |-> receives, foreign |-> foreign]

OneShortText == Exchange(<<Text(<<1>>)>>, 2, FALSE)

Malformed ==
  {[Text(<<1>>) EXCEPT !.magic = 0], [Text(<<1>>) EXCEPT !.version = 2],
   [Text(<<1>>) EXCEPT !.type = 3], [Text(<<1>>) EXCEPT !.reserved = 1],
   [Text(<<1>>) EXCEPT !.payload_length = 2], [Text(<<1>>) EXCEPT !.payload_length = 9]}

MCScripts ==
  {OneShortText,
   Exchange(<<Text(<<1, 2>>), Text(<<>>), Text(<<9, 1>>), Text(<<2>>)>>, 4, FALSE),
   Exchange(<<Text(<<1>>), Ping>>, 2, FALSE),
   Exchange(<<Text(<<1>>), Text(<<2>>), Text(<<1>>)>>, 1, FALSE),
   Exchange(<<Text(<<1, 2, 3>>)>>, 1, FALSE),
   Exchange(<<Text(<<1, 2, 3, 4>>)>>, 1, FALSE)}
  \cup {Exchange(<<Text(<<2>>), f>>, 2, TRUE) : f \in Malformed}

(* The other lab is where it starts. *)
QueueRuns ==
  /\ client = "connect" /\ server = "create" /\ script = OneShortText
  /\ UNCHANGED framingVars
FramingRuns == pc["main"] = "init" /\ UNCHANGED vars

LabsNext == (Next /\ QueueRuns) \/ (FramingNext /\ FramingRuns)

LabsInit == Init /\ FramingInit

(* The fairness of FairSpec and FairFramingSpec, each for the lab that runs. *)
LabsSpec ==
  /\ LabsInit /\ [][LabsNext]_<<vars, framingVars>>
  /\ WF_vars(Main /\ QueueRuns) /\ \A t \in Threads : WF_vars(Thread(t) /\ QueueRuns)
  /\ WF_framingVars(Client /\ FramingRuns) /\ WF_framingVars(Server /\ FramingRuns)
=============================================================================
