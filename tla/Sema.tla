-------------------------------- MODULE Sema --------------------------------
(***************************************************************************)
(* The semaphores of the semacquire, tsemacquire and semrelease system     *)
(* calls, kernel/processes/syssema.c.  The value of a semaphore is in user *)
(* memory and cannot be touched with a spin lock held; the list of the     *)
(* waiting processes is protected by a spin lock.  So value and list never *)
(* change together.                                                        *)
(*                                                                         *)
(* An acquirer enters the list, sets its waiting flag, tries for the       *)
(* semaphore a last time and sleeps until the flag is clear.  A releaser   *)
(* of n adds n to the value, then clears n flags and calls wakeup for      *)
(* each.  An acquirer that leaves with its flag clear has been given a     *)
(* wakeup it may not have used, and passes it on.                          *)
(*                                                                         *)
(* sleep, wakeup and postnote are atomic here: their tests and commitment  *)
(* happen under the Lock of the Rendez (Sleep.tla).  canacquire and the    *)
(* cmpswap loop of semrelease are atomic: a failed cmpswap changes nothing *)
(* and is tried again.  All semaphores are in one segment.                 *)
(***************************************************************************)
EXTENDS Naturals, Sequences, FiniteSets, SequencesExt

CONSTANTS Proc, Addr,
          Permits,      \* [Addr -> the initial value]
          Noted,        \* the processes that get notes
          Calls,        \* [Proc -> the calls it makes, on which semaphore and how]
          Unlocked, NoAddr

ASSUME ConstantsAssumption ==
    /\ IsFiniteSet(Proc) /\ Unlocked \notin Proc /\ NoAddr \notin Addr
    /\ Permits \in [Addr -> Nat] /\ Noted \subseteq Proc
    /\ Calls \in [Proc -> SUBSET (Addr \X {"poll", "block", "timed"})]

VARIABLES
    value,       \* [Addr -> *addr]
    list,        \* s->sema, the processes whose Sema is on the list
    lk,          \* who holds the Lock of s->sema
    waiting,     \* [Proc -> phore.waiting]
    note,        \* [Proc -> up->notepending]
    addr,        \* [Proc -> the semaphore of its current system call]
    mode,        \* [Proc -> what call it is in: "block", "timed", "release"]
    at,          \* [Proc -> where it is]
    result,      \* [Proc -> how its semacquire ends]
    n, cur,      \* [Proc -> the n of semwakeup, and where p is in the list]
    held,        \* [Addr -> the units out that were taken by calls that answered 1]
    untold       \* [Addr -> and those by calls that answered 0]

semvars == <<value, list, lk, waiting, note, addr, mode, at, result, n, cur, held,
             untold>>
kept == <<addr, mode, held, untold>>

PcSet == {"idle", "queue", "wait", "try", "sleep", "asleep", "woken", "dequeue",
          "pass", "swk_lock", "swk", "swk_wake", "done"}

SemTypeOK ==
    /\ value \in [Addr -> Nat]
    /\ list \in Seq(Proc)
    /\ lk \in Proc \cup {Unlocked}
    /\ waiting \in [Proc -> BOOLEAN]
    /\ note \in [Proc -> BOOLEAN]
    /\ addr \in [Proc -> Addr \cup {NoAddr}]
    /\ \A p \in Proc : at[p] /= "idle" => addr[p] \in Addr
    /\ mode \in [Proc -> {"none", "block", "timed", "release"}]
    /\ at \in [Proc -> PcSet]
    /\ result \in [Proc -> {"none", "acquired", "timedout", "interrupted"}]
    /\ n \in [Proc -> Nat]
    /\ cur \in [Proc -> Nat]
    /\ \A p \in Proc : at[p] = "swk_wake" => cur[p] \in 1 .. Len(list)
    /\ held \in [Addr -> Nat]
    /\ untold \in [Addr -> Nat]

SemInit ==
    /\ value = Permits
    /\ list = <<>>
    /\ lk = Unlocked
    /\ waiting = [p \in Proc |-> FALSE]
    /\ note = [p \in Proc |-> FALSE]
    /\ addr = [p \in Proc |-> NoAddr]
    /\ mode = [p \in Proc |-> "none"]
    /\ at = [p \in Proc |-> "idle"]
    /\ result = [p \in Proc |-> "none"]
    /\ n = [p \in Proc |-> 0]
    /\ cur = [p \in Proc |-> 0]
    /\ held = [a \in Addr |-> 0]
    /\ untold = [a \in Addr |-> 0]

Moves(p, to) == at' = [at EXCEPT ![p] = to]

canacquire(a) == value[a] > 0

TakeOne(a) == value' = [value EXCEPT ![a] = @ - 1]

-----------------------------------------------------------------------------
(* The system calls semacquire(a, block) and tsemacquire(a, ms): the first *)
(* try, which is the only one when the call must not wait.  It answers 1   *)
(* when it has taken a unit, and 0 otherwise.                              *)
SemacquireCall(p, a, how) ==
    /\ at[p] = "idle"
    /\ \/ /\ canacquire(a)
          /\ TakeOne(a)
          /\ held' = [held EXCEPT ![a] = @ + 1]
          /\ UNCHANGED <<addr, mode, at>>
       \/ /\ ~canacquire(a)
          /\ how = "poll"
          /\ UNCHANGED <<value, addr, mode, at, held>>
       \/ /\ ~canacquire(a)
          /\ how /= "poll"
          /\ addr' = [addr EXCEPT ![p] = a]
          /\ mode' = [mode EXCEPT ![p] = how]
          /\ Moves(p, "queue")
          /\ UNCHANGED <<value, held>>
    /\ UNCHANGED <<list, lk, waiting, note, result, n, cur, untold>>

(* semqueue, under the lock of the list.                                   *)
Semqueue(p) ==
    /\ at[p] = "queue"
    /\ lk = Unlocked
    /\ list' = Append(list, p)
    /\ waiting' = [waiting EXCEPT ![p] = FALSE]
    /\ Moves(p, "wait")
    /\ UNCHANGED <<value, lk, note, result, n, cur, kept>>

SetWaiting(p) ==
    /\ at[p] = "wait"
    /\ waiting' = [waiting EXCEPT ![p] = TRUE]
    /\ Moves(p, "try")
    /\ UNCHANGED <<value, list, lk, note, result, n, cur, kept>>

TryForgets(p) ==
    /\ at[p] = "try"
    /\ \/ canacquire(addr[p]) /\ TakeOne(addr[p]) /\ Moves(p, "dequeue")
       \/ ~canacquire(addr[p]) /\ Moves(p, "sleep") /\ UNCHANGED value
    /\ UNCHANGED <<list, lk, waiting, note, result, n, cur, kept>>

(* The last canacquire before the sleep.                                   *)
TryAgain(p) ==
    /\ at[p] = "try"
    /\ \/ /\ canacquire(addr[p])
          /\ TakeOne(addr[p])
          /\ result' = [result EXCEPT ![p] = "acquired"]
          /\ Moves(p, "dequeue")
       \/ /\ ~canacquire(addr[p])
          /\ Moves(p, "sleep")
          /\ UNCHANGED <<value, result>>
    /\ UNCHANGED <<list, lk, waiting, note, n, cur, kept>>

SleepIgnoresFlag(p) ==
    /\ at[p] = "sleep"
    /\ Moves(p, IF note[p] THEN "woken" ELSE "asleep")
    /\ UNCHANGED <<value, list, lk, waiting, note, result, n, cur, kept>>

(* sleep(&phore, semawoke): not when the flag is clear or a note pending.  *)
SemSleep(p) ==
    /\ at[p] = "sleep"
    /\ Moves(p, IF ~waiting[p] \/ note[p] THEN "woken" ELSE "asleep")
    /\ UNCHANGED <<value, list, lk, waiting, note, result, n, cur, kept>>

(* The return of sleep: an error when there is a note; in tsemacquire the  *)
(* time may be up, whatever ended the sleep; otherwise once more around.   *)
SemSleepReturn(p) ==
    /\ at[p] = "woken"
    /\ \/ /\ note[p]
          /\ note' = [note EXCEPT ![p] = FALSE]
          /\ result' = [result EXCEPT ![p] = "interrupted"]
          /\ Moves(p, "dequeue")
       \/ /\ ~note[p]
          /\ mode[p] = "timed"
          /\ result' = [result EXCEPT ![p] = "timedout"]
          /\ Moves(p, "dequeue")
          /\ UNCHANGED note
       \/ /\ ~note[p]
          /\ Moves(p, "wait")
          /\ UNCHANGED <<note, result>>
    /\ UNCHANGED <<value, list, lk, waiting, n, cur, kept>>

Semdequeue(p) ==
    /\ at[p] = "dequeue"
    /\ lk = Unlocked
    /\ \E k \in DOMAIN list : list[k] = p /\ list' = RemoveAt(list, k)
    /\ Moves(p, "pass")
    /\ UNCHANGED <<value, lk, waiting, note, result, n, cur, kept>>

PassOnlyUnused(p) ==
    /\ at[p] = "pass"
    /\ Moves(p, IF waiting[p] \/ result[p] = "acquired" THEN "done" ELSE "swk_lock")
    /\ n' = [n EXCEPT ![p] = 1]
    /\ UNCHANGED <<value, list, lk, waiting, note, result, cur, kept>>

(* if(!phore.waiting) semwakeup(s, addr, 1): pass the wakeup on.           *)
PassOn(p) ==
    /\ at[p] = "pass"
    /\ Moves(p, IF waiting[p] THEN "done" ELSE "swk_lock")
    /\ n' = [n EXCEPT ![p] = 1]
    /\ UNCHANGED <<value, list, lk, waiting, note, result, cur, kept>>

(* The call returns.  One that has waited answers 0 or, when it was        *)
(* interrupted, -1: also when it has taken a unit it returns false.        *)
Done(p) ==
    /\ at[p] = "done"
    /\ untold' = IF result[p] = "acquired" THEN [untold EXCEPT ![addr[p]] = @ + 1]
                 ELSE untold
    /\ result' = [result EXCEPT ![p] = "none"]
    /\ waiting' = [waiting EXCEPT ![p] = FALSE]
    /\ n' = [n EXCEPT ![p] = 0]
    /\ addr' = [addr EXCEPT ![p] = NoAddr]
    /\ mode' = [mode EXCEPT ![p] = "none"]
    /\ Moves(p, "idle")
    /\ UNCHANGED <<value, list, lk, note, cur, held>>

-----------------------------------------------------------------------------
(* semrelease(a, delta): add to the value, then semwakeup.  Units that are *)
(* out are given back, so the values stay bounded; by any process, since   *)
(* nobody owns a semaphore.  u of them were taken by calls that answered   *)
(* 0: libc's lock() takes every answer that is not negative for a success. *)
SemreleaseCall(p, a, delta, u) ==
    /\ at[p] = "idle"
    /\ value' = [value EXCEPT ![a] = @ + delta]
    /\ held' = [held EXCEPT ![a] = @ - (delta - u)]
    /\ untold' = [untold EXCEPT ![a] = @ - u]
    /\ addr' = [addr EXCEPT ![p] = a]
    /\ mode' = [mode EXCEPT ![p] = "release"]
    /\ n' = [n EXCEPT ![p] = delta]
    /\ Moves(p, "swk_lock")
    /\ UNCHANGED <<list, lk, waiting, note, result, cur>>

(* semwakeup(s, a, n): the lock of the list is held for the whole walk.    *)
SemwakeupLock(p) ==
    /\ at[p] = "swk_lock"
    /\ lk = Unlocked
    /\ lk' = p
    /\ cur' = [cur EXCEPT ![p] = 1]
    /\ Moves(p, "swk")
    /\ UNCHANGED <<value, list, waiting, note, result, n, kept>>

WantedAny(p, q) == waiting[q]

Wanted(p, q) == addr[q] = addr[p] /\ waiting[q]

(* One turn of the loop: clear the flag of a waiter of this semaphore ...  *)
SemwakeupTurn(p) ==
    /\ at[p] = "swk"
    /\ cur[p] <= Len(list) /\ n[p] > 0
    /\ \/ /\ Wanted(p, list[cur[p]])
          /\ waiting' = [waiting EXCEPT ![list[cur[p]]] = FALSE]
          /\ Moves(p, "swk_wake")
          /\ UNCHANGED cur
       \/ /\ ~Wanted(p, list[cur[p]])
          /\ cur' = [cur EXCEPT ![p] = @ + 1]
          /\ UNCHANGED <<waiting, at>>
    /\ UNCHANGED <<value, list, lk, note, result, n, kept>>

(* ... and call wakeup, which finds it asleep or not.                      *)
SemwakeupWake(p) ==
    /\ at[p] = "swk_wake"
    /\ at' = [q \in Proc |-> IF q = p THEN "swk"
                             ELSE IF q = list[cur[p]] /\ at[q] = "asleep" THEN "woken"
                             ELSE at[q]]
    /\ n' = [n EXCEPT ![p] = @ - 1]
    /\ cur' = [cur EXCEPT ![p] = @ + 1]
    /\ UNCHANGED <<value, list, lk, waiting, note, result, kept>>

SemwakeupUnlock(p) ==
    /\ at[p] = "swk"
    /\ cur[p] > Len(list) \/ n[p] = 0
    /\ lk' = Unlocked
    /\ cur' = [cur EXCEPT ![p] = 0]
    /\ Moves(p, "done")
    /\ UNCHANGED <<value, list, waiting, note, result, n, kept>>

-----------------------------------------------------------------------------
(* What comes from outside while p waits: a note, and in tsemacquire the   *)
(* timer of tsleep.                                                        *)
Postnote(p) ==
    /\ p \in Noted
    /\ mode[p] \in {"block", "timed"}
    /\ at[p] \in {"wait", "try", "sleep", "asleep"}
    /\ ~note[p]
    /\ note' = [note EXCEPT ![p] = TRUE]
    /\ at' = [at EXCEPT ![p] = IF @ = "asleep" THEN "woken" ELSE @]
    /\ UNCHANGED <<value, list, lk, waiting, result, n, cur, kept>>

Twakeup(p) ==
    /\ mode[p] = "timed"
    /\ at[p] = "asleep"
    /\ Moves(p, "woken")
    /\ UNCHANGED <<value, list, lk, waiting, note, result, n, cur, kept>>

Step(p) ==
    \/ Semqueue(p) \/ SetWaiting(p) \/ TryAgain(p) \/ SemSleep(p) \/ SemSleepReturn(p)
    \/ Semdequeue(p) \/ PassOn(p) \/ Done(p)
    \/ SemwakeupLock(p) \/ SemwakeupTurn(p) \/ SemwakeupWake(p) \/ SemwakeupUnlock(p)

SemNext ==
    \E p \in Proc :
        \/ Step(p)
        \/ Postnote(p) \/ Twakeup(p)
        \/ \E call \in Calls[p] : SemacquireCall(p, call[1], call[2])
        \/ \E a \in Addr : \E u \in 0 .. untold[a] : \E delta \in u .. held[a] + u :
              delta > 0 /\ SemreleaseCall(p, a, delta, u)

SemSpec == SemInit /\ [][SemNext]_semvars

(* A process inside a system call keeps executing, and a lock() that can   *)
(* succeed over and over some time does.  Nobody has to acquire or release.*)
SemFairSpec ==
    /\ SemSpec
    /\ \A p \in Proc : SF_semvars(Step(p))

-----------------------------------------------------------------------------
(* No unit is made or lost: what was there at the start is in the          *)
(* semaphore, which never goes below zero (SemTypeOK), or was taken by a   *)
(* call that has answered 1, that has answered 0 all the same (see         *)
(* AcquiredIsReported), or that is still going to answer.                  *)
PermitsConserved ==
    /\ SemTypeOK
    /\ \A a \in Addr :
        value[a] + held[a] + untold[a]
            + Cardinality({p \in Proc : result[p] = "acquired" /\ addr[p] = a}) = Permits[a]

(* What semacquire(2) says, "Both functions return 1 if the semaphore was  *)
(* acquired": nobody has taken a unit with a call that answered 0.         *)
AcquiredIsReported == \A a \in Addr : untold[a] = 0

(* Who is going to look at semaphore a again, or to wake somebody who is.  *)
Active(q, a) ==
    /\ addr[q] = a
    /\ \/ at[q] \in {"wait", "try", "woken", "swk_lock", "swk", "swk_wake"}
       \/ at[q] \in {"sleep", "dequeue", "pass"} /\ ~waiting[q]

(* No missed wakeup: as long as a process sleeps on a semaphore that is    *)
(* free, some wakeup for this semaphore is still on its way: a releaser    *)
(* has not finished, or an acquirer that was given it will try or pass it  *)
(* on.  This is about the three races that syssema.c describes.            *)
NoMissedWakeup ==
    \A p \in Proc :
        at[p] = "asleep" /\ waiting[p] /\ value[addr[p]] > 0 =>
            \E q \in Proc : Active(q, addr[p])

(* A process whose flag was cleared while it sleeps is being woken.        *)
ClearedIsWoken ==
    \A p \in Proc :
        at[p] = "asleep" /\ ~waiting[p] =>
            \E q \in Proc : at[q] = "swk_wake" /\ list[cur[q]] = p

(* Nobody sleeps for ever on a semaphore that stays free, also when others *)
(* of the same list wait for another semaphore (a process that sleeps is   *)
(* in a call on one semaphore).                                            *)
NoStuckWaiter ==
    \A p \in Proc : []<>(at[p] = "asleep" => value[addr[p]] = 0)
=============================================================================
