--------------------------- MODULE ProcessManager ---------------------------
(***************************************************************************)
(* dashboard/process_manager.py: the dashboard starts and stops one bot    *)
(* process.  Other bots come from systemd or from a shell; the manager     *)
(* sees them only by scanning the process table, and only when it holds no *)
(* handle of its own.                                                      *)
(*                                                                         *)
(* Calls are serialised by the manager's lock and by the server's single   *)
(* event loop, so one call is under way at a time; processes come and go   *)
(* while it is.  A bot ends by itself, or some time after it was asked to: *)
(* its SIGTERM handler lets the iteration under way finish.                *)
(***************************************************************************)
EXTENDS Integers

CONSTANT MaxBots    \* bound: bot processes ever started

ASSUME MaxBotsAssumption == MaxBots \in Nat

VARIABLES
    alive,      \* the bot processes that run
    own,        \* history: those the dashboard has started
    started,    \* bound: bots started, numbered from 1
    handle,     \* _process, 0 when None
    exited,     \* has the process of the handle ended?
    call,       \* the call under way: "none", "spawn", "wait10", "wait5"
    asked,      \* history: the processes that were sent SIGTERM
    answer      \* the last answer: a reason, and the pid it names

vars == <<alive, own, started, handle, exited, call, asked, answer>>

Pids == 1 .. MaxBots

Answered(reason, pid) == answer' = [reason |-> reason, pid |-> pid]

-----------------------------------------------------------------------------
(* _status_locked *)

Managed == handle # 0 /\ ~exited

(* Mutant: what runs besides the own process does not count. *)
OwnOnly(p) == Managed /\ p = handle

(* Does the status report p as the running bot?  The process table is       *)
(* looked through only without a handle.                                    *)
Reported(p) ==
    \/ Managed /\ p = handle
    \/ handle = 0 /\ p \in alive

NothingReported == \A p \in Pids : ~Reported(p)

(* A handle whose process has ended is dropped by whoever asks. *)
DropExited == handle' = IF exited THEN 0 ELSE handle

Status ==
    /\ call = "none"
    /\ DropExited /\ exited' = FALSE
    /\ \/ NothingReported /\ Answered("idle", 0)
       \/ \E p \in Pids : Reported(p) /\ Answered("running", p)
    /\ UNCHANGED <<alive, own, started, call, asked>>

-----------------------------------------------------------------------------
(* start *)

StartRefused ==
    /\ call = "none"
    /\ \E p \in Pids : Reported(p) /\ Answered("already_running", p)
    /\ UNCHANGED <<alive, own, started, handle, exited, call, asked>>

Start ==
    /\ call = "none" /\ NothingReported
    /\ DropExited /\ exited' = FALSE
    /\ call' = "spawn"
    /\ UNCHANGED <<alive, own, started, asked, answer>>

Spawn ==
    /\ call = "spawn" /\ started < MaxBots
    /\ started' = started + 1
    /\ alive' = alive \cup {started + 1} /\ own' = own \cup {started + 1}
    /\ handle' = started + 1 /\ call' = "none"
    /\ Answered("started", started + 1)
    /\ UNCHANGED <<exited, asked>>

-----------------------------------------------------------------------------
(* stop *)

(* Mutant: whatever is running is stopped. *)
StopAnyBot ==
    /\ call = "none"
    /\ \/ NothingReported /\ Answered("not_running", 0) /\ UNCHANGED <<call, asked>>
       \/ \E p \in Pids : Reported(p) /\ asked' = asked \cup {p} /\ call' = "wait10"
                          /\ UNCHANGED answer
    /\ DropExited /\ exited' = FALSE
    /\ UNCHANGED <<alive, own, started>>

Stop ==
    /\ call = "none"
    /\ \/ NothingReported /\ Answered("not_running", 0) /\ UNCHANGED <<call, asked>>
       \/ \E p \in Pids :
              /\ Reported(p) /\ ~Managed
              /\ Answered("not_managed", p) /\ UNCHANGED <<call, asked>>
       \/ Managed /\ asked' = asked \cup {handle} /\ call' = "wait10" /\ UNCHANGED answer
    /\ DropExited /\ exited' = FALSE
    /\ UNCHANGED <<alive, own, started>>

(* The handle is dropped, also when the process has outlived both waits.    *)
Stopped ==
    /\ handle' = 0 /\ exited' = FALSE /\ call' = "none"
    /\ Answered("stopped", handle)

(* wait(timeout=10), and terminate() when it runs out. *)
WaitGraceful ==
    /\ call = "wait10"
    /\ \/ exited /\ Stopped
       \/ ~exited /\ call' = "wait5" /\ UNCHANGED <<handle, exited, answer>>
    /\ UNCHANGED <<alive, own, started, asked>>

(* wait(timeout=5); its running out is ignored. *)
WaitHard ==
    /\ call = "wait5" /\ Stopped
    /\ UNCHANGED <<alive, own, started, asked>>

-----------------------------------------------------------------------------
(* The processes *)

Exit(p) ==
    /\ p \in alive
    /\ alive' = alive \ {p}
    /\ exited' = (exited \/ p = handle)
    /\ UNCHANGED <<own, started, handle, call, asked, answer>>

(* systemd's btc-bot.service, or an operator. *)
StartOutside ==
    /\ started < MaxBots
    /\ started' = started + 1
    /\ alive' = alive \cup {started + 1}
    /\ UNCHANGED <<own, handle, exited, call, asked, answer>>

Init ==
    /\ alive = {} /\ own = {} /\ started = 0 /\ handle = 0 /\ exited = FALSE
    /\ call = "none" /\ asked = {} /\ answer = [reason |-> "idle", pid |-> 0]

Call == Spawn \/ WaitGraceful \/ WaitHard

Next ==
    \/ Status \/ StartRefused \/ Start \/ Stop \/ Call \/ StartOutside
    \/ \E p \in Pids : Exit(p)

Spec == Init /\ [][Next]_vars

-----------------------------------------------------------------------------
(* Properties *)

TypeOK ==
    /\ alive \subseteq 1 .. started /\ own \subseteq 1 .. started /\ asked \subseteq 1 .. started
    /\ started \in 0 .. MaxBots
    /\ handle \in own \cup {0} /\ (handle # 0 /\ ~exited => handle \in alive)
    /\ exited \in BOOLEAN
    /\ call \in {"none", "spawn", "wait10", "wait5"}
    /\ answer.pid \in 0 .. started

(* At most one bot is alive at any time, as long as bots come from the      *)
(* dashboard alone: also when one outlives stop's two waits and is dropped  *)
(* by the manager while it runs.                                            *)
AtMostOneBot == own = 1 .. started => \A p, q \in alive : p = q

(* Only the dashboard's own processes are ever signalled. *)
OnlyOwnAreStopped == asked \subseteq own

=============================================================================
