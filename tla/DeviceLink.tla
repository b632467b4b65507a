----------------------------- MODULE DeviceLink -----------------------------
(***************************************************************************)
(* The PC tool's session with the turntable: Device and the RPCClient in   *)
(* it, the serial port, and the procedure server of the firmware.  Frames  *)
(* travel in order and may be lost, as FrameChannel says.  Qt delivers     *)
(* signals by direct calls in one thread, so a slot with all the calls it  *)
(* makes is one step.                                                      *)
(***************************************************************************)
EXTENDS Integers, Sequences, FiniteSets

CONSTANTS
  Modes,        \* the device's run modes
  Unknown,      \* RunMode::UNKNOWN
  Manual,       \* the functions the user's buttons call
  RUIDS,        \* 2^16 in the code: as many as a behaviour makes requests
  MaxConnects, MaxManual, MaxChanges,   \* bounds on the users of tool and device
  MaxFaults                             \* bound on the frames lost or late

\* Which functions answer only in service mode 3.
Writes == {"03_KOEF_W", "05_SPEED_SP_W", "09_CONF_STORE"}
Funcs  == Writes \cup {"00_PULSES_R", "01_MODE_R", "02_KOEF_R", "04_SPEED_SP_R",
                       "06_SPEED_PV_R", "07_PROCESS_START", "08_PROCESS_STOP"}
Service3 == {"SERVICE_MODE3_STOPPED", "SERVICE_MODE3_STARTED"}

ASSUME DeviceLinkAssumption ==
  /\ Unknown \notin Modes
  /\ Manual \subseteq Funcs
  /\ RUIDS \in Nat /\ RUIDS > 4   \* more than one slot gives
  /\ {MaxConnects, MaxManual, MaxChanges, MaxFaults} \subseteq Nat

VARIABLES
  opened,               \* the PC: whether the serial port is open
  m_ruid_last,          \*   RPCClient: the next identification
  m_awaiting_requests,  \*     the functions asked for, their timers running
  m_statuses,           \*   Device: what the user sees of the requests
  m_autoqueue,          \*     the automatic requests awaited
  m_ppr_valid, m_mode, m_prosess_started,   \* what it knows
  up, down,             \* frames under way to the device, and from it
  runMode,              \* the device: Ctrl's mode
  m_permanent_process_send,
  connects, manuals, changes, faults,       \* counted against the bounds
  missed                \* a change of mode was lost since m_mode was last set

known  == <<m_ppr_valid, m_mode, m_prosess_started>>
client == <<opened, m_ruid_last, m_awaiting_requests, m_statuses, m_autoqueue, known>>
device == <<runMode, m_permanent_process_send>>
counts == <<connects, manuals, changes, faults>>
vars   == <<client, up, down, device, counts, missed>>

Ruids    == 0..(RUIDS - 1)
Requests == [ruid : Ruids, func : Funcs]
Replies  == [type : {"REPLY"}, ruid : Ruids, func : Funcs, err : BOOLEAN,
             resv : Seq(Modes \cup {Unknown})]
Events   == [type : {"MODE_CHANGED"}, mode : Modes]
Statuses == [funcId : Funcs, reqmode : {"AUTO", "MANUAL"},
             res : {"AWAITING", "SUCCESS", "TIMEOUT", "ERROR"}]

TypeOK ==
  /\ opened \in BOOLEAN
  /\ m_ruid_last \in Ruids
  /\ DOMAIN m_awaiting_requests \subseteq Ruids
  /\ \A r \in DOMAIN m_awaiting_requests : m_awaiting_requests[r] \in Funcs
  /\ DOMAIN m_statuses \subseteq Ruids
  /\ \A r \in DOMAIN m_statuses : m_statuses[r] \in Statuses
  /\ m_autoqueue \subseteq Ruids
  /\ m_ppr_valid \in BOOLEAN
  /\ m_mode \in Modes \cup {Unknown}
  /\ m_prosess_started \in BOOLEAN
  /\ up \in Seq(Requests)
  /\ down \in Seq(Replies \cup Events)
  /\ runMode \in Modes
  /\ m_permanent_process_send \in BOOLEAN
  /\ missed \in BOOLEAN

-----------------------------------------------------------------------------
(* Requests. *)

\* The request looked up and left in the map.
Without_Kept(f, x) == f

Without(f, x) == [y \in DOMAIN f \ {x} |-> f[y]]

\* The entries of a map written over those of another.
Over(new, old) ==
  [x \in DOMAIN new \cup DOMAIN old |-> IF x \in DOMAIN new THEN new[x] ELSE old[x]]

\* The i-th identification from now on.
Ruid(i) == (m_ruid_last + i - 1) % RUIDS

\* The status of a request just made.
Asked(func, mode) == [funcId |-> func, reqmode |-> mode, res |-> "AWAITING"]

\* P_rpc_request_common for each of some functions; the other arguments are
\* what the rest of the slot has made of these variables.  A request sent
\* with the port closed goes nowhere, and is awaited like the others.
Request(funcs, mode, waiting, statuses, queue) ==
  LET new == [r \in {Ruid(i) : i \in DOMAIN funcs} |->
                funcs[CHOOSE i \in DOMAIN funcs : Ruid(i) = r]]
  IN  /\ m_awaiting_requests' = Over(new, waiting)
      /\ m_statuses' = Over([r \in DOMAIN new |-> Asked(new[r], mode)], statuses)
      /\ m_autoqueue' = IF mode = "AUTO" THEN queue \cup DOMAIN new ELSE queue
      /\ m_ruid_last' = Ruid(Len(funcs) + 1)
      /\ up' = IF opened'
               THEN up \o [i \in DOMAIN funcs |-> [ruid |-> Ruid(i), func |-> funcs[i]]]
               ELSE up

\* The stream forgotten among the functions asked for again.
Reload_NoStream(func, ppr, mode, started) ==
  IF \/ func = "00_PULSES_R" /\ ~ppr
     \/ func = "01_MODE_R" /\ mode = Unknown
     \/ func = "02_KOEF_R"
  THEN <<func>> ELSE << >>

\* The functions P_reload_* asks for again, given what is known then.
\* m_koef.valid is set nowhere: P_reload_02_koef_r always asks.
Reload(func, ppr, mode, started) ==
  IF \/ func = "00_PULSES_R" /\ ~ppr
     \/ func = "01_MODE_R" /\ mode = Unknown
     \/ func = "02_KOEF_R"
     \/ func = "07_PROCESS_START" /\ ~started
  THEN <<func>> ELSE << >>

\* The status of a request, if the user has not cleared it.
Marked(r, res) ==
  IF r \in DOMAIN m_statuses THEN [m_statuses EXCEPT ![r].res = res] ELSE m_statuses

-----------------------------------------------------------------------------
Init ==
  /\ opened = FALSE /\ m_ruid_last = 0
  /\ m_awaiting_requests = << >> /\ m_statuses = << >> /\ m_autoqueue = {}
  /\ m_ppr_valid = FALSE /\ m_mode = Unknown /\ m_prosess_started = FALSE
  /\ up = << >> /\ down = << >>
  /\ runMode \in Modes /\ m_permanent_process_send = FALSE
  /\ connects = 0 /\ manuals = 0 /\ changes = 0 /\ faults = 0
  /\ missed = FALSE

\* The mode kept.
P_invalidate_all_KeepsMode ==
  m_ppr_valid' = FALSE /\ UNCHANGED m_mode /\ m_prosess_started' = FALSE

P_invalidate_all ==
  m_ppr_valid' = FALSE /\ m_mode' = Unknown /\ m_prosess_started' = FALSE

\* P_openSerialPort.
devConnect ==
  /\ ~opened /\ connects < MaxConnects
  /\ opened' = TRUE
  /\ connects' = connects + 1
  /\ P_invalidate_all
  /\ Request(<<"00_PULSES_R", "01_MODE_R", "02_KOEF_R", "07_PROCESS_START">>,
             "AUTO", m_awaiting_requests, m_statuses, m_autoqueue)
  /\ missed' = FALSE
  /\ UNCHANGED <<down, device, manuals, changes, faults>>

\* m_autoqueue not cleared.
devDisconnect_KeepsQueue ==
  /\ opened
  /\ opened' = FALSE
  /\ P_invalidate_all
  /\ m_statuses' = Over([r \in {Ruid(1)} |-> Asked("08_PROCESS_STOP", "AUTO")], m_statuses)
  /\ m_ruid_last' = Ruid(2)
  /\ m_awaiting_requests' = << >>
  /\ UNCHANGED m_autoqueue
  /\ UNCHANGED <<up, down, device, counts, missed>>

\* The identifications start anew with the next session.
devDisconnect_Renumbers ==
  /\ opened
  /\ opened' = FALSE
  /\ P_invalidate_all
  /\ m_ruid_last' = 0
  /\ m_awaiting_requests' = << >> /\ m_statuses' = << >>
  /\ m_autoqueue' = {}
  /\ UNCHANGED <<up, down, device, counts, missed>>

\* P_closeSerialPort closes the port first, so the stop it then asks for is
\* never written; it is recorded, and its wait called off with the others.
devDisconnect ==
  /\ opened
  /\ opened' = FALSE
  /\ P_invalidate_all
  /\ m_statuses' = Over([r \in {Ruid(1)} |-> Asked("08_PROCESS_STOP", "AUTO")], m_statuses)
  /\ m_ruid_last' = Ruid(2)
  /\ m_awaiting_requests' = << >>
  /\ m_autoqueue' = {}
  /\ UNCHANGED <<up, down, device, counts, missed>>

\* A button of the user; it works with the port closed too.
ManualRequest ==
  /\ manuals < MaxManual
  /\ manuals' = manuals + 1
  /\ UNCHANGED opened
  /\ \E func \in Manual :
       Request(<<func>>, "MANUAL", m_awaiting_requests, m_statuses, m_autoqueue)
  /\ UNCHANGED <<known, down, device, connects, changes, faults, missed>>

\* The user clears the statuses, all of them or those that timed out.
requestsStatClear ==
  /\ manuals < MaxManual
  /\ manuals' = manuals + 1
  /\ \E kept \in {{}, {r \in DOMAIN m_statuses : m_statuses[r].res # "TIMEOUT"}} :
       m_statuses' = [r \in kept |-> m_statuses[r]]
  /\ UNCHANGED <<opened, m_ruid_last, m_awaiting_requests, m_autoqueue, known, up, down,
                 device, connects, changes, faults, missed>>

\* P_timeoutEvent, then P_rpc_request_timedout.  A timer that runs out while
\* the request or its reply is still under way is counted.
P_timeoutEvent(r) ==
  /\ r \in DOMAIN m_awaiting_requests
  /\ LET underway == \/ \E i \in DOMAIN up : up[i].ruid = r
                     \/ \E i \in DOMAIN down : down[i].type = "REPLY" /\ down[i].ruid = r
     IN  /\ underway => faults < MaxFaults
         /\ faults' = IF underway THEN faults + 1 ELSE faults
  /\ UNCHANGED opened
  /\ LET func  == m_awaiting_requests[r]
         again == IF r \in m_autoqueue
                  THEN Reload(func, m_ppr_valid, m_mode, m_prosess_started) ELSE << >>
     IN  Request(again, "AUTO", Without(m_awaiting_requests, r), Marked(r, "TIMEOUT"),
                 m_autoqueue \ {r})
  /\ UNCHANGED <<known, down, device, connects, manuals, changes, missed>>

-----------------------------------------------------------------------------
(* Frames from the device. *)

\* The length of resv that P_rpc_replyReceived accepts; it counts every reply
\* to the functions left out as a success.
Expected == [func \in {"00_PULSES_R", "01_MODE_R", "04_SPEED_SP_R", "06_SPEED_PV_R"} |->
              IF func \in {"00_PULSES_R", "01_MODE_R"} THEN 1 ELSE 2]

\* P_rpc_replyReceived for the reply msg to function func.
Replied(msg, func) ==
  LET success == func \in DOMAIN Expected => Len(msg.resv) = Expected[func]
      again   == IF ~success /\ msg.ruid \in DOMAIN m_statuses
                    /\ m_statuses[msg.ruid].reqmode = "AUTO"
                 THEN Reload(func, m_ppr_valid, m_mode, m_prosess_started) ELSE << >>
  IN  /\ m_ppr_valid' = (m_ppr_valid \/ (func = "00_PULSES_R" /\ success))
      /\ m_mode' = IF func # "01_MODE_R" THEN m_mode
                   ELSE IF success THEN Head(msg.resv) ELSE Unknown
      /\ m_prosess_started' = (\/ m_prosess_started
                               \/ func = "07_PROCESS_START" /\ msg.resv = << >>)
      /\ missed' = (missed /\ func # "01_MODE_R")
      /\ Request(again, "AUTO", Without(m_awaiting_requests, msg.ruid),
                 Marked(msg.ruid, IF msg.err THEN "ERROR" ELSE "SUCCESS"),
                 m_autoqueue \ {msg.ruid})

\* RPCClient::dataReplyReceive; with the port closed nobody reads.
dataReplyReceive ==
  /\ down # << >>
  /\ down' = Tail(down)
  /\ LET msg == Head(down)
     IN  \/ /\ ~opened
            /\ missed' = (missed \/ msg.type = "MODE_CHANGED")
            /\ UNCHANGED <<client, up>>
         \/ /\ opened /\ msg.type = "MODE_CHANGED"
            /\ m_mode' = msg.mode
            /\ missed' = FALSE
            /\ UNCHANGED <<opened, m_ruid_last, m_awaiting_requests, m_statuses,
                           m_autoqueue, m_ppr_valid, m_prosess_started, up>>
         \/ /\ opened /\ msg.type = "REPLY" /\ msg.ruid \in DOMAIN m_awaiting_requests
            /\ UNCHANGED opened
            /\ Replied(msg, m_awaiting_requests[msg.ruid])
         \/ /\ opened /\ msg.type = "REPLY" /\ msg.ruid \notin DOMAIN m_awaiting_requests
            /\ UNCHANGED <<client, up, missed>>
  /\ UNCHANGED <<device, counts>>

-----------------------------------------------------------------------------
(* The device. *)

\* The values a function answers, as P_convert_device_mode would read them: a
\* value that is no mode, like the 16 pulses, is Unknown.
Values(func) ==
  CASE func = "00_PULSES_R" -> <<Unknown>>
    [] func = "01_MODE_R" -> <<runMode>>
    [] func = "02_KOEF_R" -> [i \in 1..6 |-> Unknown]
    [] func \in {"04_SPEED_SP_R", "06_SPEED_PV_R"} -> <<Unknown, Unknown>>
    [] OTHER -> << >>

\* P_comm_reader, GRPCServer::handle and the function called.
P_comm_reader ==
  /\ up # << >>
  /\ LET req == Head(up)
         err == req.func \in Writes /\ runMode \notin Service3
     IN  /\ down' = Append(down, [type |-> "REPLY", ruid |-> req.ruid, func |-> req.func,
                                  err |-> err, resv |-> Values(req.func)])
         /\ m_permanent_process_send' = CASE req.func = "07_PROCESS_START" -> TRUE
                                          [] req.func = "08_PROCESS_STOP"  -> FALSE
                                          [] OTHER -> m_permanent_process_send
  /\ up' = Tail(up)
  /\ UNCHANGED <<client, runMode, counts, missed>>

\* The user of the turntable changes its mode: P_rpc_eventModeChanged.
ModeChanges ==
  /\ changes < MaxChanges
  /\ changes' = changes + 1
  /\ runMode' \in Modes \ {runMode}
  /\ down' = Append(down, [type |-> "MODE_CHANGED", mode |-> runMode'])
  /\ UNCHANGED <<client, up, m_permanent_process_send, connects, manuals, faults, missed>>

-----------------------------------------------------------------------------
(* The link loses a frame. *)

LoseUp ==
  /\ up # << >> /\ faults < MaxFaults
  /\ faults' = faults + 1
  /\ up' = Tail(up)
  /\ UNCHANGED <<client, down, device, connects, manuals, changes, missed>>

LoseDown ==
  /\ down # << >> /\ faults < MaxFaults
  /\ faults' = faults + 1
  /\ down' = Tail(down)
  /\ missed' = (missed \/ Head(down).type = "MODE_CHANGED")
  /\ UNCHANGED <<client, up, device, connects, manuals, changes>>

Next ==
  \/ devConnect \/ devDisconnect \/ ManualRequest \/ requestsStatClear
  \/ (\E r \in Ruids : P_timeoutEvent(r)) \/ dataReplyReceive
  \/ P_comm_reader \/ ModeChanges
  \/ LoseUp \/ LoseDown

Spec == Init /\ [][Next]_vars

\* Both programs keep running, and while timers run one goes off in the end;
\* the users need do nothing.
FairSpec ==
  /\ Spec
  /\ WF_vars(dataReplyReceive)
  /\ WF_vars(P_comm_reader)
  /\ WF_vars(\E r \in DOMAIN m_awaiting_requests : P_timeoutEvent(r))

-----------------------------------------------------------------------------
(* Properties. *)

\* m_autoqueue is what its comment says, the automatic requests awaited: an
\* entry that outlives its request would never be asked for again.
AutoqueueAwaited == m_autoqueue \subseteq DOMAIN m_awaiting_requests

\* The books of the client agree: no automatic request is waited for in vain.
RequestsAwaited == TypeOK /\ AutoqueueAwaited

\* The identifications a step gives to its requests, and those that still mean
\* something to somebody.
Given == {Ruid(i) : i \in 1..((m_ruid_last' - m_ruid_last) % RUIDS)}
InUse == DOMAIN m_awaiting_requests \cup DOMAIN m_statuses
           \cup {up[i].ruid : i \in DOMAIN up}
           \cup {down[i].ruid : i \in {j \in DOMAIN down : down[j].type = "REPLY"}}

\* requestSend gives the next identification without a look at those in use:
\* none of 2^16 comes round so soon, and none is given again in a new session.
IdentificationsFresh == [][Given \cap InUse = {}]_vars

\* A reply under way is taken for an answer only to the function it was
\* computed for, whatever was lost, late, or sent before the port was closed.
AnswersTheRequest ==
  \A i \in DOMAIN down :
    down[i].type = "REPLY" /\ down[i].ruid \in DOMAIN m_awaiting_requests
      => m_awaiting_requests[down[i].ruid] = down[i].func

\* The mode shown is the device's, unless news of another is under way or has
\* been lost: a reply never overwrites a later event, nor an event of an
\* earlier session what is known in this one.
ModeAgrees ==
  (/\ opened /\ m_mode # Unknown /\ ~missed
   /\ \A i \in DOMAIN down : down[i].type # "MODE_CHANGED") => m_mode = runMode

\* A request has one outcome: a late reply does not undo a timeout.
AnsweredOnce ==
  [][\A r \in DOMAIN m_statuses \cap DOMAIN m_statuses' :
       m_statuses[r].res # "AWAITING" => m_statuses'[r] = m_statuses[r]]_vars

\* Both: a request is answered rightly or not at all, and once.
AnsweredRightly == []AnswersTheRequest /\ AnsweredOnce

\* A session that stays open gets to know the device and starts the stream,
\* whatever finite number of frames is lost or late.
Ready == m_ppr_valid /\ m_mode # Unknown /\ m_prosess_started
SessionReady == opened ~> (Ready \/ ~opened)
=============================================================================
