----------------------------- MODULE AsyncCalls -----------------------------
(***************************************************************************)
(* What HIDPP::Dispatcher promises the callers of sendCommand and          *)
(* getNotification (Dispatcher.h), whatever threads, mutexes and lists the *)
(* dispatcher is made of.  A call is opened or refused; an open call gets  *)
(* its report, or its error, or is abandoned when its timeout expires, or  *)
(* is aborted because the dispatcher is closing; each of these is final.   *)
(* When the dispatcher is closed, no call is open and none can be opened.  *)
(***************************************************************************)
CONSTANT Calls

VARIABLES status, closing, closed
vars == <<status, closing, closed>>

Status == {"new", "open", "refused", "fulfilled", "expired", "aborted"}

TypeOK ==
    /\ status \in [Calls -> Status]
    /\ closing \in BOOLEAN
    /\ closed \in BOOLEAN

Init ==
    /\ status = [c \in Calls |-> "new"]
    /\ closing = FALSE
    /\ closed = FALSE

Set(c, s) == status' = [status EXCEPT ![c] = s]

Open(c) ==
    /\ status[c] = "new"
    /\ ~closed
    /\ Set(c, "open")
    /\ UNCHANGED <<closing, closed>>

Refuse(c) ==
    /\ status[c] = "new"
    /\ Set(c, "refused")
    /\ UNCHANGED <<closing, closed>>

\* The matching report has come.
Fulfil(c) ==
    /\ status[c] = "open"
    /\ Set(c, "fulfilled")
    /\ UNCHANGED <<closing, closed>>

Expire(c) ==
    /\ status[c] = "open"
    /\ Set(c, "expired")
    /\ UNCHANGED <<closing, closed>>

BeginClose ==
    /\ closing' = TRUE
    /\ UNCHANGED <<status, closed>>

\* Open calls are aborted, several at a time; the last ones may be aborted
\* in the step that closes the dispatcher.
Abort(S) ==
    /\ closing
    /\ \A c \in S : status[c] = "open"
    /\ status' = [c \in Calls |-> IF c \in S THEN "aborted" ELSE status[c]]
    /\ closed' \in {closed, TRUE}
    /\ closed' => \A c \in Calls : status'[c] # "open"
    /\ UNCHANGED closing

Next ==
    \/ \E c \in Calls : Open(c) \/ Refuse(c) \/ Fulfil(c) \/ Expire(c)
    \/ BeginClose
    \/ \E S \in SUBSET Calls : Abort(S)

Spec == Init /\ [][Next]_vars
=============================================================================
