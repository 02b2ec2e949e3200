------------------------------ MODULE ScpService -------------------------------
(***************************************************************************)
(* What the "Scp" service promises to its clients: every accepted request  *)
(* is executed once, one request at a time, the processor is never idle    *)
(* while a request waits, and each client obtains the answer to its own    *)
(* request.  A session may be closed at any time; a program that already   *)
(* executes then runs to its end on behalf of nobody ("orphan").           *)
(***************************************************************************)
CONSTANTS Remote, Local

Sessions == Remote \union {Local}

VARIABLES phase,    \* per client: closed, idle, pending, executing, answered
          orphan    \* a program of a closed session executes

vars == <<phase, orphan>>

TypeOK == /\ phase \in [Sessions -> {"closed", "idle", "pending", "executing", "answered"}]
          /\ orphan \in BOOLEAN

Init == /\ phase = [c \in Sessions |-> IF c = Local THEN "idle" ELSE "closed"]
        /\ orphan = FALSE

In(ph, p) == {c \in Sessions : ph[c] = p}

\* From the phases ph, start one pending request if the processor is free
StartNext(ph, free) ==
    IF free /\ In(ph, "pending") # {}
    THEN \E c \in In(ph, "pending") : phase' = [ph EXCEPT ![c] = "executing"]
    ELSE phase' = ph

Open(c) == /\ phase[c] = "closed"
           /\ phase' = [phase EXCEPT ![c] = "idle"]
           /\ UNCHANGED orphan

Close(c) == /\ phase[c] # "closed"
            /\ phase' = [phase EXCEPT ![c] = "closed"]
            /\ orphan' = (orphan \/ phase[c] = "executing")

Ask(c) == /\ phase[c] = "idle"
          /\ StartNext([phase EXCEPT ![c] = "pending"],
                       In(phase, "executing") = {} /\ ~orphan)
          /\ UNCHANGED orphan

\* The current execution ends, on behalf of the client in E or of nobody
Finish(E) == /\ E = In(phase, "executing")
             /\ E # {} \/ orphan
             /\ StartNext([c \in Sessions |-> IF c \in E THEN "answered" ELSE phase[c]], TRUE)
             /\ orphan' = FALSE

Return(c) == /\ phase[c] = "answered"
             /\ phase' = [phase EXCEPT ![c] = "idle"]
             /\ UNCHANGED orphan

Next == \/ \E c \in Remote : Open(c) \/ Close(c)
        \/ \E c \in Sessions : Ask(c) \/ Return(c)
        \/ Finish(In(phase, "executing"))

Spec == Init /\ [][Next]_vars

================================================================================
