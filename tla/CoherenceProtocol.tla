------------------------- MODULE CoherenceProtocol -------------------------
(***************************************************************************)
(* The five invalidation protocols of coherence-p5/protocol.c as tables.   *)
(* Each C function is a switch on the state of one line in one processor;  *)
(* here it is an operator that returns what the function returns and what  *)
(* it asks of the bus:                                                     *)
(*                                                                         *)
(*   CacheXXX(isRead, st)  a request of the local cache (permReq)          *)
(*       next       the new state                                          *)
(*       permAvail  may the access go ahead now?                           *)
(*       send       "NO_REQ", or the request put on the bus                *)
(*                                                                         *)
(*   SnoopXXX(req, st)     a message seen on the bus (busReq)              *)
(*       next       the new state                                          *)
(*       ca         what the local cache is told                           *)
(*       sends      replies to the bus: a subset of {"DATA", "SHARED"}     *)
(*                                                                         *)
(* A state a scheme does not know takes the "default" arm, which prints a  *)
(* message and returns INVALID without a permission or a reply.            *)
(***************************************************************************)

BusRequest  == {"BUSRD", "BUSWR"}            \* what a miss puts on the bus
BusReply    == {"DATA", "SHARED"}            \* what comes back
CacheAction == {"NO_ACTION", "DATA_RECV", "INVALIDATE"}

Scheme == {"MI", "MSI", "MESI", "MOESI", "MESIF"}

\* Waiting for the answer to a BUSRD, and to a BUSWR.
ReadTransient  == {"INVALID_SHARED", "INVALID_READ"}
WriteTransient == {"INVALID_MODIFIED", "SHARED_MODIFIED",
                   "OWNED_MODIFIED", "FORWARD_MODIFIED"}
Transient      == ReadTransient \cup WriteTransient

\* States in which the scheme lets a load, or a store, hit.
Writable == {"MODIFIED", "EXCLUSIVE"}
Readable == Writable \cup {"SHARED_STATE", "OWNED", "FORWARD"}

CoherenceState == {"INVALID"} \cup Readable \cup Transient

-----------------------------------------------------------------------------
(* Shapes of the answers to the local cache. A definition called a slip is  *)
(* a mistake the checks have to notice; nothing uses it.                    *)

Granted(st)    == [next |-> st, permAvail |-> TRUE,  send |-> "NO_REQ"]
Waiting(st)    == [next |-> st, permAvail |-> FALSE, send |-> "NO_REQ"]
\* Slips: a miss that is not put on the bus; a miss that always asks to read; a
\* miss that goes ahead.
AskingNobody(req, st) == [next |-> st, permAvail |-> FALSE, send |-> "NO_REQ"]
AskingToRead(req, st) == [next |-> st, permAvail |-> FALSE, send |-> "BUSRD"]
AskingForgiveness(req, st) == [next |-> st, permAvail |-> TRUE, send |-> req]

Asking(req, st) == [next |-> st, permAvail |-> FALSE, send |-> req]

(* Shapes of the reactions to the bus.                                     *)

Quiet(st)      == [next |-> st, ca |-> "NO_ACTION", sends |-> {}]
Drop           == Quiet("INVALID")
Received(st)   == [next |-> st, ca |-> "DATA_RECV", sends |-> {}]

\* Slip: whoever supplies a line gives it up.
ReplyAndDrop(st, ca, sends) == [next |-> "INVALID", ca |-> ca, sends |-> sends]

Reply(st, ca, sends) == [next |-> st, ca |-> ca, sends |-> sends]

\* A transient state that any data message completes, to become "to".
AwaitFill(req, st, to) == IF req \in BusReply THEN Received(to) ELSE Quiet(st)

-----------------------------------------------------------------------------
CacheMI(isRead, st) ==
    CASE st = "INVALID"          -> Asking("BUSWR", "INVALID_MODIFIED")
      [] st = "MODIFIED"         -> Granted("MODIFIED")
      [] st = "INVALID_MODIFIED" -> Waiting("INVALID_MODIFIED")
      [] OTHER                   -> Waiting("INVALID")

\* A modified line is given up whatever the message is.
SnoopMI(req, st) ==
    CASE st = "MODIFIED"         -> Reply("INVALID", "INVALIDATE", {"DATA"})
      [] st = "INVALID_MODIFIED" -> AwaitFill(req, st, "MODIFIED")
      [] OTHER                   -> Drop

-----------------------------------------------------------------------------
\* The part of the tables that MSI, MESI, MOESI and MESIF have in common; a
\* read miss waits in "readMiss", INVALID_SHARED in MSI and INVALID_READ in
\* the others.
CacheCommon(isRead, st, readMiss) ==
    CASE st = "INVALID" /\ isRead       -> Asking("BUSRD", readMiss)
      [] st = "INVALID" /\ ~isRead      -> Asking("BUSWR", "INVALID_MODIFIED")
      [] st = "SHARED_STATE" /\ isRead  -> Granted("SHARED_STATE")
      [] st = "SHARED_STATE" /\ ~isRead -> Asking("BUSWR", "SHARED_MODIFIED")
      [] st = "MODIFIED"                -> Granted("MODIFIED")
      [] st \in {"INVALID_MODIFIED", "SHARED_MODIFIED", readMiss} -> Waiting(st)
      [] OTHER                          -> Waiting("INVALID")

CacheMSI(isRead, st) == CacheCommon(isRead, st, "INVALID_SHARED")

\* The arms of MODIFIED and SHARED_STATE have no break: a message that none of
\* their conditions names runs on into the arm of INVALID_MODIFIED.
SnoopMSI(req, st) ==
    CASE st = "MODIFIED" /\ req = "BUSWR" -> Reply("INVALID", "INVALIDATE", {"DATA"})
      [] st = "MODIFIED" /\ req = "BUSRD" ->
             Reply("INVALID", "INVALIDATE", {"DATA", "SHARED"})
      [] st = "SHARED_STATE" /\ req = "BUSWR" -> Drop
      [] \/ st = "MODIFIED" /\ req \notin BusRequest
         \/ st = "SHARED_STATE" /\ req # "BUSWR"
         \/ st = "INVALID_MODIFIED"  -> AwaitFill(req, "INVALID_MODIFIED", "MODIFIED")
      [] st = "INVALID_SHARED"       -> AwaitFill(req, st, "SHARED_STATE")
      [] st = "SHARED_MODIFIED"      -> AwaitFill(req, st, "MODIFIED")
      [] OTHER                       -> Drop

-----------------------------------------------------------------------------
CacheMESI(isRead, st) ==
    IF st = "EXCLUSIVE"
    THEN Granted(IF isRead THEN "EXCLUSIVE" ELSE "MODIFIED")
    ELSE CacheCommon(isRead, st, "INVALID_READ")

SnoopMESI(req, st) ==
    CASE st = "MODIFIED" /\ req = "BUSRD" ->
             Reply("SHARED_STATE", "INVALIDATE", {"DATA", "SHARED"})
      [] st = "MODIFIED" /\ req = "BUSWR" -> Reply("INVALID", "INVALIDATE", {"DATA"})
      [] st \in {"EXCLUSIVE", "SHARED_STATE"} /\ req = "BUSRD" ->
             Reply("SHARED_STATE", "NO_ACTION", {"SHARED"})
      [] st \in {"EXCLUSIVE", "SHARED_STATE"} /\ req = "BUSWR" -> Drop
      [] st \in {"MODIFIED", "EXCLUSIVE", "SHARED_STATE"} /\ req \notin BusRequest ->
             Quiet(st)
      [] st = "INVALID_READ" /\ req = "DATA"   -> Received("EXCLUSIVE")
      [] st = "INVALID_READ" /\ req = "SHARED" -> Received("SHARED_STATE")
      [] st = "INVALID_READ" /\ req \notin BusReply -> Quiet(st)
      [] st \in {"INVALID_MODIFIED", "SHARED_MODIFIED"} -> AwaitFill(req, st, "MODIFIED")
      [] OTHER -> Drop

-----------------------------------------------------------------------------
CacheMOESI(isRead, st) ==
    CASE st = "OWNED" /\ isRead  -> Granted("OWNED")
      [] st = "OWNED" /\ ~isRead -> Asking("BUSWR", "OWNED_MODIFIED")
      [] st = "OWNED_MODIFIED"   -> Waiting("OWNED_MODIFIED")
      [] OTHER                   -> CacheMESI(isRead, st)

\* Differs from SnoopMESI where a dirty line is shared (it becomes or stays
\* OWNED) and where a clean one is: E and S answer a BUSRD with nothing.
SnoopMOESI(req, st) ==
    CASE st \in {"MODIFIED", "OWNED"} /\ req = "BUSRD" ->
             Reply("OWNED", "NO_ACTION", {"DATA", "SHARED"})
      [] st \in {"EXCLUSIVE", "SHARED_STATE"} /\ req = "BUSRD" -> Quiet("SHARED_STATE")
      [] st = "OWNED" /\ req = "BUSWR" -> Reply("INVALID", "INVALIDATE", {"DATA"})
      [] st = "OWNED" /\ req \notin BusRequest -> Quiet("OWNED")
      [] st = "OWNED_MODIFIED" -> AwaitFill(req, st, "MODIFIED")
      [] OTHER -> SnoopMESI(req, st)

-----------------------------------------------------------------------------
CacheMESIF(isRead, st) ==
    CASE st = "FORWARD" /\ isRead  -> Granted("FORWARD")
      [] st = "FORWARD" /\ ~isRead -> Asking("BUSWR", "FORWARD_MODIFIED")
      [] st = "FORWARD_MODIFIED"   -> Waiting("FORWARD_MODIFIED")
      [] OTHER                     -> CacheMESI(isRead, st)

\* Differs from SnoopMESI in who answers a BUSRD: E and F do, with the data,
\* and S does not answer. The newest reader of a shared line becomes FORWARD.
SnoopMESIF(req, st) ==
    CASE st \in {"EXCLUSIVE", "FORWARD"} /\ req = "BUSRD" ->
             Reply("SHARED_STATE", "NO_ACTION", {"DATA", "SHARED"})
      [] st = "SHARED_STATE" /\ req = "BUSRD" -> Quiet("SHARED_STATE")
      [] st = "FORWARD" /\ req = "BUSWR" -> Reply("INVALID", "NO_ACTION", {"DATA"})
      [] st = "FORWARD" /\ req \notin BusRequest -> Quiet("FORWARD")
      [] st = "INVALID_READ" /\ req = "SHARED" -> Received("FORWARD")
      [] st = "FORWARD_MODIFIED" -> AwaitFill(req, st, "MODIFIED")
      [] OTHER -> SnoopMESI(req, st)

=============================================================================
