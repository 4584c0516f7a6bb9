------------------------------ MODULE KernelVM ------------------------------
(***************************************************************************)
(* runKernelInVM: a kernel runs in a QuickJS guest and awaits digests and  *)
(* signature checks that the host's WebCrypto answers later.  A loop of    *)
(* the host drains the guest's jobs and waits for host calls in turn until *)
(* the kernel's promise must be settled; meanwhile every host call that is *)
(* answered drains jobs as well.  Any kernel is modelled: Main is its      *)
(* entry, the other tasks are asynchronous functions of it that it starts  *)
(* and need not await.                                                     *)
(***************************************************************************)
EXTENDS Naturals

CONSTANTS
    Tasks, Main,
    MaxCalls    \* BOUND: the host calls of one task

ASSUME KernelAssumption ==
    /\ Main \in Tasks /\ MaxCalls \in Nat
    /\ Tasks \cap {"idle", "ready", "host", "ended", "dead"} = {}

VARIABLES
    task,       \* "idle", "ready" (has a job), "host" (awaits a host call), a task
                \* it awaits, "dead" (awaits what nothing settles) or "ended"
    calls,      \* the host calls each task has made: <<t, n>> is its n-th
    inFlight,   \* calls WebCrypto has not answered
    answered,   \* answered calls whose .finally is still to come
    pending,    \* the array of that name
    batch,      \* what Promise.all waits for
    top,        \* the promise of the kernel's result
    overrun,    \* a job was interrupted: the budget is used up
    stray,      \* the answer to a call met a disposed context
    at          \* where the host is

kernelVars == <<task, calls, inFlight, answered, pending, batch, top, overrun, stray, at>>

Over  == at \in {"returned", "threw"}
Ready == {t \in Tasks : task[t] = "ready"}

\* The entry is about to be evaluated.
KernelInit ==
    /\ task = [t \in Tasks |-> IF t = Main THEN "ready" ELSE "idle"]
    /\ calls = [t \in Tasks |-> 0]
    /\ inFlight = {} /\ answered = {} /\ pending = {} /\ batch = {}
    /\ top = "pending" /\ overrun = FALSE /\ stray = FALSE
    /\ at = "eval"

-----------------------------------------------------------------------------
\* Tasks that call the host: the bridge posts the call and tracks its promise.
Call(callers) ==
    LET new == {<<t, calls[t] + 1>> : t \in callers}
    IN  /\ \A t \in callers : calls[t] < MaxCalls
        /\ calls' = [t \in Tasks |-> IF t \in callers THEN calls[t] + 1 ELSE calls[t]]
        /\ inFlight' = inFlight \cup new
        /\ pending' = pending \cup new

\* What a turn of t leaves of the tasks: t goes to s, those it started await
\* their first call, and whoever awaited t has a job when it ended.
Moved(t, s, started) ==
    [u \in Tasks |->
        IF u = t THEN s
        ELSE IF u \in started THEN "host"
        ELSE IF s = "ended" /\ task[u] = t THEN "ready"
        ELSE task[u]]

\* A turn of the guest, up to its next await or its end.
Turn(t) ==
    /\ at \in {"eval", "drive", "finally"} /\ t \in Ready
    /\ \E s \in {"ended", "dead", "host"} \cup {u \in Tasks : u # t /\ task[u] # "ended"},
          started \in SUBSET {u \in Tasks : task[u] = "idle"} :
          /\ s \in Tasks => task[s] # "idle" \/ s \in started
          /\ task' = Moved(t, s, started)
          /\ Call(IF s = "host" THEN started \cup {t} ELSE started)
          /\ IF t = Main /\ s = "ended" THEN top' \in {"fulfilled", "rejected"} ELSE UNCHANGED top
    /\ at' = IF at = "eval" THEN "drive" ELSE at
    /\ UNCHANGED <<answered, batch, overrun, stray>>

\* The entry throws where the host evaluates it; calls it made are in flight.
ThrowAtOnce ==
    /\ at = "eval"
    /\ \E started \in SUBSET (Tasks \ {Main}) :
          task' = Moved(Main, "dead", started) /\ Call(started)
    /\ top' = "rejected" /\ at' = "threw"
    /\ UNCHANGED <<answered, batch, overrun, stray>>

\* The interrupt handler stops a turn for good.  The loop throws, an answer's
\* drain ignores it and leaves the other jobs to the loop.
Interrupt(t) ==
    /\ at \in {"eval", "drive", "finally"} /\ t \in Ready
    /\ \E started \in SUBSET {u \in Tasks : task[u] = "idle"} :
          task' = Moved(t, "dead", started) /\ Call(started)
    /\ overrun' = TRUE
    /\ at' = IF at = "finally" THEN "await" ELSE "threw"
    /\ UNCHANGED <<answered, batch, top, stray>>

-----------------------------------------------------------------------------
\* WebCrypto answers a call: the bridge settles the guest's promise, which
\* gives the task that awaits it a job.  Host callbacks run while the loop
\* awaits, and after it.
Answer(t, n) ==
    /\ at = "await" \/ Over
    /\ <<t, n>> \in inFlight
    /\ inFlight' = inFlight \ {<<t, n>>}
    /\ IF Over
       THEN stray' = TRUE /\ UNCHANGED <<task, answered>>
       ELSE /\ task' = [task EXCEPT ![t] = IF @ = "host" THEN "ready" ELSE @]
            /\ answered' = answered \cup {<<t, n>>}
            /\ UNCHANGED stray
    /\ UNCHANGED <<calls, pending, batch, top, overrun, at>>

\* The .finally of an answer drains the guest's jobs; after the end it fails
\* and is ignored.
Finally(t, n) ==
    /\ at = "await" \/ Over
    /\ <<t, n>> \in answered
    /\ answered' = answered \ {<<t, n>>}
    /\ at' = IF Over THEN at ELSE "finally"
    /\ UNCHANGED <<task, calls, inFlight, pending, batch, top, overrun, stray>>

Drained ==
    /\ at = "finally" /\ Ready = {}
    /\ at' = "await"
    /\ UNCHANGED <<task, calls, inFlight, answered, pending, batch, top, overrun, stray>>

-----------------------------------------------------------------------------
\* No job is left: the loop takes the calls made so far and awaits them all.
Await ==
    /\ at = "drive" /\ Ready = {} /\ pending # {}
    /\ batch' = pending /\ pending' = {}
    /\ at' = "await"
    /\ UNCHANGED <<task, calls, inFlight, answered, top, overrun, stray>>

\* Mutants: one answer is enough; there must be a job as well.
ResumeOnAny ==
    /\ at = "await" /\ ~(batch \subseteq inFlight)
    /\ batch' = {} /\ at' = "drive"
    /\ UNCHANGED <<task, calls, inFlight, answered, pending, top, overrun, stray>>
ResumeForJob ==
    /\ at = "await" /\ batch \cap inFlight = {} /\ Ready # {}
    /\ batch' = {} /\ at' = "drive"
    /\ UNCHANGED <<task, calls, inFlight, answered, pending, top, overrun, stray>>

Resume ==
    /\ at = "await" /\ batch \cap inFlight = {}
    /\ batch' = {} /\ at' = "drive"
    /\ UNCHANGED <<task, calls, inFlight, answered, pending, top, overrun, stray>>

\* Mutant: the loop goes on only while there are jobs.
ReadAtOnce ==
    /\ at = "drive" /\ Ready = {}
    /\ at' = IF top = "fulfilled" THEN "returned" ELSE "threw"
    /\ UNCHANGED <<task, calls, inFlight, answered, pending, batch, top, overrun, stray>>

\* Neither a job nor a call is left: the result is read, and the context
\* disposed whatever it is.
Read ==
    /\ at = "drive" /\ Ready = {} /\ pending = {}
    /\ at' = IF top = "fulfilled" THEN "returned" ELSE "threw"
    /\ UNCHANGED <<task, calls, inFlight, answered, pending, batch, top, overrun, stray>>

Host ==
    \/ Drained \/ Await \/ Resume \/ Read
    \/ \E t \in Tasks, n \in 1..MaxCalls : Answer(t, n) \/ Finally(t, n)
Guest == ThrowAtOnce \/ \E t \in Tasks : Turn(t) \/ Interrupt(t)

KernelNext == Host \/ Guest
KernelSpec == KernelInit /\ [][KernelNext]_kernelVars

\* The guest runs while it has jobs; WebCrypto answers, and the host's event
\* loop calls back.
FairKernelSpec == KernelSpec /\ WF_kernelVars(Host) /\ WF_kernelVars(Guest)

-----------------------------------------------------------------------------
\* Types.
KernelTypeOK ==
    /\ task \in [Tasks -> {"idle", "ready", "host", "ended", "dead"} \cup Tasks]
    /\ calls \in [Tasks -> 0..MaxCalls]
    /\ \A set \in {inFlight, answered, pending, batch} : set \subseteq Tasks \X (1..MaxCalls)
    /\ top \in {"pending", "fulfilled", "rejected"}
    /\ overrun \in BOOLEAN /\ stray \in BOOLEAN
    /\ at \in {"eval", "drive", "await", "finally", "returned", "threw"}

\* A run that returns has left nothing behind: no job that could still run and
\* no call whose answer would meet the disposed context, not even of a task the
\* kernel did not await.
ReturnsClean == at = "returned" => Ready = {} /\ inFlight = {} /\ ~stray

\* A run throws for the kernel's fault only: it was interrupted, it rejected, or
\* its result depends on nothing that could still come.
ThrowsForCause ==
    at = "threw" =>
       \/ overrun \/ top = "rejected"
       \/ top = "pending" /\ Ready = {} /\ inFlight = {}

\* The promise runKernelInVM gave is settled, whatever the kernel awaits.
RunEnds == <>Over
=============================================================================
