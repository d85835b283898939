--------------------------- MODULE RequestServer ---------------------------
(***************************************************************************)
(* The desk's HTTP server (src/src/server.py): one accepting thread, one   *)
(* daemon thread for each admitted connection, and a bounded semaphore of  *)
(* request slots.  A connection carries one request.  What a handler does  *)
(* with its request is left to the modules that extend this one: here it   *)
(* ends (Finish) or meets an error (Fail).                                 *)
(***************************************************************************)
EXTENDS Naturals, FiniteSets

CONSTANTS Clients,      \* each has at most one connection at a time
          MaxWorkers,   \* request slots (the --max-workers option)
          MaxFaults     \* bound on errors, failed thread starts and crashes

ASSUME ServerAssumption ==
  /\ IsFiniteSet(Clients)
  /\ MaxWorkers \in Nat \ {0}
  /\ MaxFaults \in Nat

VARIABLES
  slots,      \* value of the semaphore _request_slots
  conn,       \* state of each client's connection
  stranded,   \* slots taken by connections whose thread never started
  faults      \* faults so far

server_vars == <<slots, conn, stranded, faults>>

\* A connection is accepted into "refused" (no slot) or "admitted"; its
\* thread then is "reading" the request, "serving" it and
\* "answering", and ends by giving the slot back.
HoldingStates == {"admitted", "reading", "serving", "answering"}
ConnStates == {"away", "refused"} \cup HoldingStates

Holding == {c \in Clients : conn[c] \in HoldingStates}

ServerTypeOK ==
  /\ slots \in 0 .. MaxWorkers
  /\ conn \in [Clients -> ConnStates]
  /\ stranded \in 0 .. MaxWorkers
  /\ faults \in 0 .. MaxFaults

ServerInit ==
  /\ slots = MaxWorkers
  /\ conn = [c \in Clients |-> "away"]
  /\ stranded = 0
  /\ faults = 0

\* One thread accepts: the next connection waits until this one was refused
\* or its thread was started.
AcceptorFree == \A c \in Clients : conn[c] \notin {"refused", "admitted"}

Fault == faults < MaxFaults /\ faults' = faults + 1

Moves(c, from, to) == conn[c] = from /\ conn' = [conn EXCEPT ![c] = to]

Accept(c) ==
  /\ AcceptorFree
  /\ slots > 0
  /\ Moves(c, "away", "admitted")
  /\ slots' = slots - 1
  /\ UNCHANGED <<stranded, faults>>

\* acquire(blocking=False) failed: the acceptor itself answers 503.
Refuse(c) ==
  /\ AcceptorFree
  /\ slots = 0
  /\ Moves(c, "away", "refused")
  /\ UNCHANGED <<slots, stranded, faults>>

\* Mutant of HangUp: the release of the slot moved to where every socket is
\* shut down.
HangUpReleases(c) ==
  /\ Moves(c, "refused", "away")
  /\ slots' = slots + 1
  /\ UNCHANGED <<stranded, faults>>

\* The refused socket is shut down; no slot was taken and none is given back.
HangUp(c) ==
  /\ Moves(c, "refused", "away")
  /\ UNCHANGED <<slots, stranded, faults>>

Launch(c) ==
  /\ Moves(c, "admitted", "reading")
  /\ UNCHANGED <<slots, stranded, faults>>

\* The thread cannot be started: socketserver shuts the socket down and goes
\* on, but only the thread would have given the slot back.
LaunchFails(c) ==
  /\ Fault
  /\ Moves(c, "admitted", "away")
  /\ stranded' = stranded + 1
  /\ UNCHANGED slots

\* The whole request has arrived and passed the host, token and body checks.
Deliver(c) ==
  /\ Moves(c, "reading", "serving")
  /\ UNCHANGED <<slots, stranded, faults>>

\* One of those checks fails (421, 401 or 400), or the socket's 15 second
\* timeout ends the wait: in the request line and the headers without an
\* answer, in the body with 408.
Dismiss(c) ==
  /\ Moves(c, "reading", "answering")
  /\ UNCHANGED <<slots, stranded, faults>>

Finish(c) ==
  /\ Moves(c, "serving", "answering")
  /\ UNCHANGED <<slots, stranded, faults>>

\* An exception nobody expected: do_GET and do_POST answer 500.
Fail(c) ==
  /\ Fault
  /\ Moves(c, "serving", "answering")
  /\ UNCHANGED <<slots, stranded>>

\* The answer is sent, unless the client is gone; the socket is shut down,
\* and the finally of process_request_thread gives the slot back.
Release(c) ==
  /\ Moves(c, "answering", "away")
  /\ slots' = slots + 1
  /\ UNCHANGED <<stranded, faults>>

\* The process dies, with every connection, and is started again.
Restart ==
  /\ Fault
  /\ slots' = MaxWorkers
  /\ conn' = [c \in Clients |-> "away"]
  /\ stranded' = 0

ServerNext ==
  \/ \E c \in Clients :
        \/ Accept(c) \/ Refuse(c) \/ HangUp(c) \/ Launch(c) \/ LaunchFails(c)
        \/ Deliver(c) \/ Dismiss(c) \/ Finish(c) \/ Fail(c) \/ Release(c)
  \/ Restart

ServerSpec == ServerInit /\ [][ServerNext]_server_vars

-----------------------------------------------------------------------------
\* Every slot is free, held by one connection whose thread will give it back,
\* or stranded: none is given back twice (the bounded semaphore would raise)
\* and none is lost on any path of accepting, refusing, reading or answering.
SlotsAccounted == slots + Cardinality(Holding) + stranded = MaxWorkers
=============================================================================
