-------------------------------- MODULE Runner --------------------------------
(***************************************************************************)
(* src/runner.rs: Runner::drive, the loop that dispatches what a           *)
(* component's Nexus decides until it replies, and the ContinuationBudget  *)
(* it spends.  Each connection drives a loop of its own; what the engines  *)
(* decide is arbitrary, and a plane they await may never answer.           *)
(***************************************************************************)
EXTENDS Integers

CONSTANTS Drives,    \* the drives in progress, one for each request
          LimitOf,   \* the ContinuationLimit of each drive's runner
          U32Max     \* the largest step count (u32::MAX)

ASSUME RunnerAssumption ==
    /\ U32Max \in Nat
    /\ LimitOf \in [Drives -> 0..U32Max]

VARIABLES at,          \* where each drive is
          completed,   \* completed_step_count of its budget
          exhausted,   \* the ContinuationExhausted handed to the engines
          performed    \* non-reply steps it has set going

vars == <<at, completed, exhausted, performed>>

Planes == {"SemaWrite", "SemaRead", "RunEffect"}
Ends == {"replied", "exhausted", "dropped"}
Report == [completed : 0..U32Max, attempted : 0..U32Max]

TypeOK ==
    /\ at \in [Drives -> {"deciding"} \cup Planes \cup Ends]
    /\ completed \in [Drives -> 0..U32Max]
    /\ exhausted \in [Drives -> Report]
    /\ performed \in [Drives -> Nat]

Init ==
    /\ at = [d \in Drives |-> "deciding"]
    /\ completed = [d \in Drives |-> 0]
    /\ exhausted = [d \in Drives |-> [completed |-> 0, attempted |-> 0]]
    /\ performed = [d \in Drives |-> 0]

\* Mutant: the attempted count wraps to zero at u32::MAX.
BugWrapped(d) == IF completed[d] < U32Max THEN completed[d] + 1 ELSE 0

Attempted(d) == IF completed[d] < U32Max THEN completed[d] + 1 ELSE U32Max

\* Mutant: one step past the limit is let through.
BugOffByOne(d) == completed[d] <= LimitOf[d]

HasBudget(d) == completed[d] < LimitOf[d]

\* spend_next_step() succeeds ...
Spend(d) ==
    /\ HasBudget(d)
    /\ completed' = [completed EXCEPT ![d] = Attempted(d)]

\* Continue: the next work is decided at once.
Continue(d) ==
    /\ at[d] = "deciding"
    /\ Spend(d)
    /\ performed' = [performed EXCEPT ![d] = @ + 1]
    /\ UNCHANGED <<at, exhausted>>

\* Mutant: awaited planes are not charged to the budget.
BugFreeDispatch(d, plane) ==
    /\ at[d] = "deciding"
    /\ at' = [at EXCEPT ![d] = plane]
    /\ UNCHANGED <<completed, exhausted, performed>>

\* SemaWrite, SemaRead and RunEffect: the plane is called and awaited.
Dispatch(d, plane) ==
    /\ at[d] = "deciding"
    /\ Spend(d)
    /\ at' = [at EXCEPT ![d] = plane]
    /\ performed' = [performed EXCEPT ![d] = @ + 1]
    /\ UNCHANGED exhausted

\* The awaited plane answers with the work to decide next.
PlaneAnswers(d) ==
    /\ at[d] \in Planes
    /\ at' = [at EXCEPT ![d] = "deciding"]
    /\ UNCHANGED <<completed, exhausted, performed>>

\* A Reply is returned whatever is left of the budget.
Reply(d) ==
    /\ at[d] = "deciding"
    /\ at' = [at EXCEPT ![d] = "replied"]
    /\ UNCHANGED <<completed, exhausted, performed>>

\* ... or fails: any other decision then becomes the engines' exhausted reply.
Exhaust(d) ==
    /\ at[d] = "deciding"
    /\ ~HasBudget(d)
    /\ at' = [at EXCEPT ![d] = "exhausted"]
    /\ exhausted' = [exhausted EXCEPT ![d] =
                        [completed |-> completed[d], attempted |-> Attempted(d)]]
    /\ UNCHANGED <<completed, performed>>

\* The drive's future is dropped while it awaits a plane.
DropDrive(d) ==
    /\ at[d] \in Planes
    /\ at' = [at EXCEPT ![d] = "dropped"]
    /\ UNCHANGED <<completed, exhausted, performed>>

Decide(d) == Reply(d) \/ Exhaust(d) \/ Continue(d) \/ \E p \in Planes : Dispatch(d, p)

Next == \E d \in Drives : Decide(d) \/ PlaneAnswers(d) \/ DropDrive(d)

Spec == Init /\ [][Next]_vars

\* The loop runs on; that a plane answers is up to the component.
FairSpec == Spec /\ \A d \in Drives : WF_vars(Decide(d))

------------------------------------------------------------------------------
\* However the engines decide, a drive performs at most its limit of storage,
\* effect and continuation steps, each paid for before it starts (Runner::drive).
BudgetRespected ==
    \A d \in Drives : performed[d] = completed[d] /\ performed[d] <= LimitOf[d]

\* The report given to the engines is exact: the whole limit was used, and the
\* attempt is the step after it, except at u32::MAX where the count saturates
\* (ContinuationBudget::spend_next_step).
ReportExact ==
    \A d \in Drives : at[d] = "exhausted" =>
        /\ exhausted[d].completed = LimitOf[d] /\ performed[d] = LimitOf[d]
        /\ exhausted[d].attempted = IF LimitOf[d] < U32Max THEN LimitOf[d] + 1 ELSE LimitOf[d]

\* A drive whose planes keep answering ends, even if Nexus never decides to reply
\* (ARCHITECTURE: the limit makes the recursion bounded; Runner::drive).
DriveEnds ==
    \A d \in Drives : []<>(at[d] \notin Planes) => <>(at[d] \in Ends)
==============================================================================
