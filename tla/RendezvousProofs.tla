-------------------------- MODULE RendezvousProofs --------------------------
(***************************************************************************)
(* Proofs about rendezvous against notes, rfork(RFREND) and exit, for any  *)
(* number of processes, groups and tags.                                   *)
(*                                                                         *)
(* The inductive invariant ties p->state and the hash chain to where the   *)
(* process is (StateInv, ChainInv), says what a process that has met       *)
(* another knows of it until it makes it ready (PartnerInv) and who holds  *)
(* the Lock of a group (LockInv), and gives the argument that postnote     *)
(* depends on (PosterInv): while a poster holds p->debug, p has a note and *)
(* cannot get out of the kernel, so p->rgrp stays what it was.             *)
(***************************************************************************)
EXTENDS Rendezvous, TLAPS

PcInv ==
    /\ \A p \in Proc :
          pc[p] \in {"user", "rlock", "spin", "sched", "off", "ret", "close", "exit", "dead"}
    /\ \A a \in Poster : pc[a] \in {"idle", "check", "lock", "unlock", "out"}

InSched(p) == pc[p] \in {"sched", "off"}

StateInv ==
    \A p \in Proc :
        /\ pc[p] \in {"user", "rlock", "spin", "ret"} => state[p] = "Running"
        /\ InSched(p) => state[p] \in {"Rendezvous", "Ready"}
        /\ pc[p] = "close" => state[p] \in {"Running", "Dead"}
        /\ pc[p] \in {"exit", "dead"} => state[p] = "Dead"
        /\ state[p] /= "Dead" => rgrp[p] \in Group
        /\ pc[p] = "close" => old[p] \in Group

ChainInv ==
    \A g \in Group : \A p \in chain[g] :
        p \in Proc /\ rgrp[p] = g /\ InSched(p) /\ state[p] = "Rendezvous" /\ rendval[p] = p

(* Who waits is in the chain, or was met.                                  *)
MetInv ==
    \A p \in Proc : state[p] = "Rendezvous" =>
        p \in chain[rgrp[p]] \/ \E q \in Proc : partner[q] = p

PartnerInv ==
    /\ \A p \in Proc : pc[p] /= "spin" => partner[p] = Nobody
    /\ \A p \in Proc : pc[p] = "spin" =>
          /\ partner[p] \in Proc /\ InSched(partner[p])
          /\ state[partner[p]] = "Rendezvous" /\ rgrp[partner[p]] = rgrp[p]
          /\ \A g \in Group : partner[p] \notin chain[g]
          /\ val[p] = partner[p]

HoldsGroup(x, g) ==
    \/ x \in Proc /\ pc[x] = "spin" /\ rgrp[x] = g
    \/ x \in Poster /\ pc[x] = "unlock" /\ rgrp[on[x]] = g

LockInv ==
    \A g \in Group, x \in Proc \cup Poster : lk[g] = x <=> HoldsGroup(x, g)

PosterInv ==
    /\ \A p \in Proc, a \in Poster : debug[p] = a <=> pc[a] /= "idle" /\ on[a] = p
    /\ \A p \in Proc : pc[p] = "dead" => debug[p] = Nobody
    /\ \A a \in Poster : pc[a] /= "idle" => on[a] \in Proc /\ nnote[on[a]] > 0
    /\ \A a \in Poster : pc[a] \in {"lock", "unlock"} =>
          InSched(on[a]) \/ pc[on[a]] = "ret"

ValInv ==
    \A p \in Proc : pc[p] \notin {"spin", "ret"} => val[p] = NoVal

IInv ==
    /\ TypeOK /\ PcInv /\ StateInv /\ ChainInv /\ MetInv /\ PartnerInv
    /\ LockInv /\ PosterInv /\ ValInv /\ NobodyMissed

(* Meet with the process q that it found.                                  *)
MeetWith(p, q) ==
    /\ chain' = [chain EXCEPT ![rgrp[p]] = @ \ {q}]
    /\ val' = [val EXCEPT ![p] = rendval[q]]
    /\ rendval' = [rendval EXCEPT ![q] = p]
    /\ partner' = [partner EXCEPT ![p] = q]
    /\ lk' = [lk EXCEPT ![rgrp[p]] = p]
    /\ Goto(p, "spin")
    /\ UNCHANGED <<state, groups, rendtag, notes>>

-----------------------------------------------------------------------------
LEMMA SysrendezvousIInv ==
    ASSUME IInv, NEW p \in Proc, NEW tag \in Tag, Sysrendezvous(p, tag)
    PROVE  IInv'
<1>1. /\ pc[p] = "user"
      /\ rendval' = [rendval EXCEPT ![p] = Interrupted] /\ rendtag' = [rendtag EXCEPT ![p] = tag]
      /\ pc' = [pc EXCEPT ![p] = "rlock"]
      /\ state' = state /\ rgrp' = rgrp /\ old' = old /\ lk' = lk
      /\ chain' = chain /\ val' = val /\ partner' = partner /\ debug' = debug
      /\ nnote' = nnote /\ notified' = notified /\ on' = on
    BY DEF Sysrendezvous, Goto, groups, notes
<1>2. TypeOK'
    BY <1>1, RendezvousAssumption DEF IInv, TypeOK
<1>3. PcInv'
    BY <1>1, RendezvousAssumption DEF IInv, TypeOK, PcInv
<1>4. StateInv'
    BY <1>1, RendezvousAssumption DEF IInv, TypeOK, StateInv, InSched
<1>5. ChainInv'
    BY <1>1, RendezvousAssumption DEF IInv, TypeOK, ChainInv, InSched
<1>6. MetInv'
    BY <1>1, RendezvousAssumption DEF IInv, TypeOK, MetInv
<1>7. PartnerInv'
    BY <1>1, RendezvousAssumption DEF IInv, TypeOK, PartnerInv, InSched
<1>8. LockInv'
    BY <1>1, RendezvousAssumption DEF IInv, TypeOK, LockInv, HoldsGroup
<1>9. PosterInv'
    BY <1>1, RendezvousAssumption DEF IInv, TypeOK, PosterInv, InSched
<1>10. ValInv'
    BY <1>1, RendezvousAssumption DEF IInv, TypeOK, ValInv
<1>11. NobodyMissed'
    BY <1>1, RendezvousAssumption DEF IInv, TypeOK, ChainInv, InSched, NobodyMissed
<1> QED BY <1>2, <1>3, <1>4, <1>5, <1>6, <1>7, <1>8, <1>9, <1>10, <1>11 DEF IInv

LEMMA MeetIInv ==
    ASSUME IInv, NEW p \in Proc, NEW q \in Matches(p), MeetWith(p, q),
           pc[p] = "rlock", lk[rgrp[p]] = Nobody
    PROVE  IInv'
<1>1. /\ pc[p] = "rlock" /\ lk[rgrp[p]] = Nobody
      /\ chain' = [chain EXCEPT ![rgrp[p]] = @ \ {q}] /\ val' = [val EXCEPT ![p] = rendval[q]]
      /\ rendval' = [rendval EXCEPT ![q] = p] /\ partner' = [partner EXCEPT ![p] = q]
      /\ lk' = [lk EXCEPT ![rgrp[p]] = p] /\ pc' = [pc EXCEPT ![p] = "spin"]
      /\ state' = state /\ rgrp' = rgrp /\ old' = old /\ rendtag' = rendtag
      /\ debug' = debug /\ nnote' = nnote /\ notified' = notified /\ on' = on
    BY DEF MeetWith, Goto, groups, notes
<1>2. rgrp[p] \in Group
    BY <1>1 DEF IInv, StateInv
<1>3. /\ q \in Proc /\ q \in chain[rgrp[p]] /\ rendval[q] = q
      /\ state[q] = "Rendezvous" /\ rgrp[q] = rgrp[p] /\ InSched(q)
    BY <1>2 DEF IInv, ChainInv, Matches
<1>4. q /= p
    BY <1>1, <1>3 DEF InSched
<1>5. \A g \in Group : g /= rgrp[p] => q \notin chain[g]
    BY <1>3 DEF IInv, ChainInv
<1>6. \A x \in Proc : partner[x] /= q
    BY <1>2, <1>3, RendezvousAssumption DEF IInv, PartnerInv
<1>7. TypeOK'
    BY <1>1, <1>2, <1>3, RendezvousAssumption DEF IInv, TypeOK
<1>8. PcInv'
    BY <1>1, RendezvousAssumption DEF IInv, TypeOK, PcInv
<1>9. StateInv'
    BY <1>1, RendezvousAssumption DEF IInv, TypeOK, StateInv, InSched
<1>10. ChainInv'
    BY <1>1, <1>2, <1>3, <1>4, <1>5 DEF IInv, TypeOK, ChainInv, InSched
<1>11. MetInv'
    BY <1>1, <1>2, <1>3, <1>4, RendezvousAssumption DEF IInv, TypeOK, MetInv, PartnerInv
<1>12. PartnerInv'
    BY <1>1, <1>2, <1>3, <1>4, <1>5, <1>6, RendezvousAssumption
    DEF IInv, TypeOK, PartnerInv, InSched
<1>13. LockInv'
    BY <1>1, RendezvousAssumption DEF IInv, TypeOK, LockInv, HoldsGroup
<1>14. PosterInv'
    BY <1>1, RendezvousAssumption DEF IInv, TypeOK, PosterInv, InSched
<1>15. ValInv'
    BY <1>1, RendezvousAssumption DEF IInv, TypeOK, ValInv
<1>16. NobodyMissed'
    BY <1>1, RendezvousAssumption DEF IInv, TypeOK, ChainInv, InSched, NobodyMissed
<1> QED BY <1>7, <1>8, <1>9, <1>10, <1>11, <1>12, <1>13, <1>14, <1>15, <1>16 DEF IInv

LEMMA MeetReadyIInv ==
    ASSUME IInv, NEW p \in Proc, MeetReady(p)
    PROVE  IInv'
<1>1. /\ pc[p] = "spin" /\ pc[partner[p]] = "off"
      /\ state' = [state EXCEPT ![partner[p]] = "Ready"] /\ partner' = [partner EXCEPT ![p] = Nobody]
      /\ lk' = [lk EXCEPT ![rgrp[p]] = Nobody] /\ pc' = [pc EXCEPT ![p] = "ret"]
      /\ rgrp' = rgrp /\ old' = old /\ chain' = chain /\ rendtag' = rendtag
      /\ rendval' = rendval /\ val' = val /\ debug' = debug /\ nnote' = nnote
      /\ notified' = notified /\ on' = on
    BY DEF MeetReady, Goto, groups, rend, notes
<1>2. /\ partner[p] \in Proc /\ rgrp[partner[p]] = rgrp[p] /\ partner[p] /= p
      /\ \A g \in Group : partner[p] \notin chain[g]
    BY <1>1 DEF IInv, PartnerInv
<1>3. rgrp[p] \in Group
    BY <1>1 DEF IInv, StateInv
<1>4. \A x \in Proc : pc[x] = "spin" /\ x /= p => partner[x] /= partner[p]
    BY <1>1, <1>2, <1>3, RendezvousAssumption DEF IInv, PartnerInv, LockInv, HoldsGroup
<1>5. TypeOK'
    BY <1>1, RendezvousAssumption DEF IInv, TypeOK
<1>6. PcInv'
    BY <1>1, RendezvousAssumption DEF IInv, TypeOK, PcInv
<1>7. StateInv'
    BY <1>1, RendezvousAssumption DEF IInv, TypeOK, StateInv, InSched
<1>8. ChainInv'
    BY <1>1, <1>2 DEF IInv, TypeOK, ChainInv, InSched
<1>9. MetInv'
    BY <1>1, RendezvousAssumption DEF IInv, TypeOK, MetInv
<1>10. PartnerInv'
    BY <1>1, <1>2, <1>4 DEF IInv, TypeOK, PartnerInv, InSched
<1>11. LockInv'
    BY <1>1, RendezvousAssumption DEF IInv, TypeOK, LockInv, HoldsGroup
<1>12. PosterInv'
    BY <1>1, RendezvousAssumption DEF IInv, TypeOK, PosterInv, InSched
<1>13. ValInv'
    BY <1>1, RendezvousAssumption DEF IInv, TypeOK, ValInv
<1>14. NobodyMissed'
    BY <1>1, RendezvousAssumption DEF IInv, TypeOK, ChainInv, InSched, NobodyMissed
<1> QED BY <1>5, <1>6, <1>7, <1>8, <1>9, <1>10, <1>11, <1>12, <1>13, <1>14 DEF IInv

LEMMA WaitIInv ==
    ASSUME IInv, NEW p \in Proc, Wait(p)
    PROVE  IInv'
<1>1. /\ pc[p] = "rlock" /\ lk[rgrp[p]] = Nobody
      /\ rendval' = [rendval EXCEPT ![p] = p] /\ chain' = [chain EXCEPT ![rgrp[p]] = @ \cup {p}]
      /\ state' = [state EXCEPT ![p] = "Rendezvous"] /\ pc' = [pc EXCEPT ![p] = "sched"]
      /\ rgrp' = rgrp /\ old' = old /\ lk' = lk /\ rendtag' = rendtag
      /\ val' = val /\ partner' = partner /\ debug' = debug /\ nnote' = nnote
      /\ notified' = notified /\ on' = on
    BY DEF Wait, Goto, groups, notes
<1>2. rgrp[p] \in Group
    BY <1>1 DEF IInv, StateInv
<1>3. \A q \in chain[rgrp[p]] : q /= p /\ rendtag[q] /= rendtag[p]
    BY <1>1, <1>2 DEF IInv, ChainInv, InSched, Wait, Matches
<1>4. TypeOK'
    BY <1>1, <1>2, RendezvousAssumption DEF IInv, TypeOK
<1>5. PcInv'
    BY <1>1, RendezvousAssumption DEF IInv, TypeOK, PcInv
<1>6. StateInv'
    BY <1>1, RendezvousAssumption DEF IInv, TypeOK, StateInv, InSched
<1>7. ChainInv'
    BY <1>1, RendezvousAssumption DEF IInv, TypeOK, ChainInv, InSched
<1>8. MetInv'
    BY <1>1, <1>2, RendezvousAssumption DEF IInv, TypeOK, MetInv
<1>9. PartnerInv'
    BY <1>1, RendezvousAssumption DEF IInv, TypeOK, PartnerInv, InSched
<1>10. LockInv'
    BY <1>1, RendezvousAssumption DEF IInv, TypeOK, LockInv, HoldsGroup
<1>11. PosterInv'
    BY <1>1, RendezvousAssumption DEF IInv, TypeOK, PosterInv, InSched
<1>12. ValInv'
    BY <1>1, RendezvousAssumption DEF IInv, TypeOK, ValInv
<1>13. NobodyMissed'
    BY <1>1, <1>2, <1>3 DEF IInv, TypeOK, ChainInv, InSched, NobodyMissed
<1> QED BY <1>4, <1>5, <1>6, <1>7, <1>8, <1>9, <1>10, <1>11, <1>12, <1>13 DEF IInv

LEMMA SchedIInv ==
    ASSUME IInv, NEW p \in Proc, Sched(p)
    PROVE  IInv'
<1>1. /\ pc[p] = "sched" /\ pc' = [pc EXCEPT ![p] = "off"]
      /\ state' = state /\ rgrp' = rgrp /\ old' = old /\ lk' = lk
      /\ chain' = chain /\ rendtag' = rendtag /\ rendval' = rendval /\ val' = val
      /\ partner' = partner /\ debug' = debug /\ nnote' = nnote /\ notified' = notified
      /\ on' = on
    BY DEF Sched, Goto, groups, rend, notes
<1>2. TypeOK'
    BY <1>1, RendezvousAssumption DEF IInv, TypeOK
<1>3. PcInv'
    BY <1>1, RendezvousAssumption DEF IInv, TypeOK, PcInv
<1>4. StateInv'
    BY <1>1, RendezvousAssumption DEF IInv, TypeOK, StateInv, InSched
<1>5. ChainInv'
    BY <1>1, RendezvousAssumption DEF IInv, TypeOK, ChainInv, InSched
<1>6. MetInv'
    BY <1>1, RendezvousAssumption DEF IInv, TypeOK, MetInv
<1>7. PartnerInv'
    BY <1>1, RendezvousAssumption DEF IInv, TypeOK, PartnerInv, InSched
<1>8. LockInv'
    BY <1>1, RendezvousAssumption DEF IInv, TypeOK, LockInv, HoldsGroup
<1>9. PosterInv'
    BY <1>1, RendezvousAssumption DEF IInv, TypeOK, PosterInv, InSched
<1>10. ValInv'
    BY <1>1, RendezvousAssumption DEF IInv, TypeOK, ValInv
<1>11. NobodyMissed'
    BY <1>1, RendezvousAssumption DEF IInv, TypeOK, ChainInv, InSched, NobodyMissed
<1> QED BY <1>2, <1>3, <1>4, <1>5, <1>6, <1>7, <1>8, <1>9, <1>10, <1>11 DEF IInv

LEMMA ResumeIInv ==
    ASSUME IInv, NEW p \in Proc, Resume(p)
    PROVE  IInv'
<1>1. /\ pc[p] = "off" /\ state[p] = "Ready"
      /\ state' = [state EXCEPT ![p] = "Running"] /\ val' = [val EXCEPT ![p] = rendval[p]]
      /\ pc' = [pc EXCEPT ![p] = "ret"]
      /\ rgrp' = rgrp /\ old' = old /\ lk' = lk /\ chain' = chain
      /\ rendtag' = rendtag /\ rendval' = rendval /\ partner' = partner /\ debug' = debug
      /\ nnote' = nnote /\ notified' = notified /\ on' = on
    BY DEF Resume, Goto, groups, rend, notes
<1>2. TypeOK'
    BY <1>1, RendezvousAssumption DEF IInv, TypeOK
<1>3. PcInv'
    BY <1>1, RendezvousAssumption DEF IInv, TypeOK, PcInv
<1>4. StateInv'
    BY <1>1, RendezvousAssumption DEF IInv, TypeOK, StateInv, InSched
<1>5. ChainInv'
    BY <1>1, RendezvousAssumption DEF IInv, TypeOK, ChainInv, InSched
<1>6. MetInv'
    BY <1>1, RendezvousAssumption DEF IInv, TypeOK, MetInv
<1>7. PartnerInv'
    BY <1>1, RendezvousAssumption DEF IInv, TypeOK, PartnerInv, InSched
<1>8. LockInv'
    BY <1>1, RendezvousAssumption DEF IInv, TypeOK, LockInv, HoldsGroup
<1>9. PosterInv'
    BY <1>1, RendezvousAssumption DEF IInv, TypeOK, PosterInv, InSched
<1>10. ValInv'
    BY <1>1, RendezvousAssumption DEF IInv, TypeOK, ValInv
<1>11. NobodyMissed'
    BY <1>1, RendezvousAssumption DEF IInv, TypeOK, ChainInv, InSched, NobodyMissed
<1> QED BY <1>2, <1>3, <1>4, <1>5, <1>6, <1>7, <1>8, <1>9, <1>10, <1>11 DEF IInv

LEMMA NotifyIInv ==
    ASSUME IInv, NEW p \in Proc, Notify(p)
    PROVE  IInv'
<1>1. /\ pc[p] = "ret" /\ (nnote[p] > 0 => debug[p] = Nobody)
      /\ nnote' = [nnote EXCEPT ![p] = IF notified[p] \/ @ = 0 THEN @ ELSE @ - 1]
      /\ notified' = [notified EXCEPT ![p] = @ \/ nnote[p] > 0] /\ val' = [val EXCEPT ![p] = NoVal]
      /\ rendval' = [rendval EXCEPT ![p] = Interrupted] /\ rendtag' = [rendtag EXCEPT ![p] = NoTag]
      /\ pc' = [pc EXCEPT ![p] = "user"]
      /\ state' = state /\ rgrp' = rgrp /\ old' = old /\ lk' = lk
      /\ chain' = chain /\ partner' = partner /\ debug' = debug /\ on' = on
    BY DEF Notify, Forget, Goto, groups
<1>2. TypeOK'
    BY <1>1, RendezvousAssumption DEF IInv, TypeOK
<1>3. PcInv'
    BY <1>1, RendezvousAssumption DEF IInv, TypeOK, PcInv
<1>4. StateInv'
    BY <1>1, RendezvousAssumption DEF IInv, TypeOK, StateInv, InSched
<1>5. ChainInv'
    BY <1>1, RendezvousAssumption DEF IInv, TypeOK, ChainInv, InSched
<1>6. MetInv'
    BY <1>1, RendezvousAssumption DEF IInv, TypeOK, MetInv
<1>7. PartnerInv'
    BY <1>1, RendezvousAssumption DEF IInv, TypeOK, PartnerInv, InSched
<1>8. LockInv'
    BY <1>1, RendezvousAssumption DEF IInv, TypeOK, LockInv, HoldsGroup
<1>9. PosterInv'
    BY <1>1, RendezvousAssumption DEF IInv, TypeOK, PosterInv, InSched
<1>10. ValInv'
    BY <1>1, RendezvousAssumption DEF IInv, TypeOK, ValInv
<1>11. NobodyMissed'
    BY <1>1, RendezvousAssumption DEF IInv, TypeOK, ChainInv, InSched, NobodyMissed
<1> QED BY <1>2, <1>3, <1>4, <1>5, <1>6, <1>7, <1>8, <1>9, <1>10, <1>11 DEF IInv

LEMMA SysNotedIInv ==
    ASSUME IInv, NEW p \in Proc, SysNoted(p)
    PROVE  IInv'
<1>1. /\ pc[p] = "user"
      /\ notified' = [notified EXCEPT ![p] = FALSE] /\ pc' = [pc EXCEPT ![p] = "ret"]
      /\ state' = state /\ rgrp' = rgrp /\ old' = old /\ lk' = lk
      /\ chain' = chain /\ rendtag' = rendtag /\ rendval' = rendval /\ val' = val
      /\ partner' = partner /\ debug' = debug /\ nnote' = nnote /\ on' = on
    BY DEF SysNoted, Goto, groups, rend
<1>2. TypeOK'
    BY <1>1, RendezvousAssumption DEF IInv, TypeOK
<1>3. PcInv'
    BY <1>1, RendezvousAssumption DEF IInv, TypeOK, PcInv
<1>4. StateInv'
    BY <1>1, RendezvousAssumption DEF IInv, TypeOK, StateInv, InSched
<1>5. ChainInv'
    BY <1>1, RendezvousAssumption DEF IInv, TypeOK, ChainInv, InSched
<1>6. MetInv'
    BY <1>1, RendezvousAssumption DEF IInv, TypeOK, MetInv
<1>7. PartnerInv'
    BY <1>1, RendezvousAssumption DEF IInv, TypeOK, PartnerInv, InSched
<1>8. LockInv'
    BY <1>1, RendezvousAssumption DEF IInv, TypeOK, LockInv, HoldsGroup
<1>9. PosterInv'
    BY <1>1, RendezvousAssumption DEF IInv, TypeOK, PosterInv, InSched
<1>10. ValInv'
    BY <1>1, RendezvousAssumption DEF IInv, TypeOK, ValInv
<1>11. NobodyMissed'
    BY <1>1, RendezvousAssumption DEF IInv, TypeOK, ChainInv, InSched, NobodyMissed
<1> QED BY <1>2, <1>3, <1>4, <1>5, <1>6, <1>7, <1>8, <1>9, <1>10, <1>11 DEF IInv

LEMMA RforkRendIInv ==
    ASSUME IInv, NEW p \in Proc, NEW g \in Group, RforkRend(p, g)
    PROVE  IInv'
<1>1. /\ pc[p] = "user" /\ Fresh(g)
      /\ rgrp' = [rgrp EXCEPT ![p] = g] /\ old' = [old EXCEPT ![p] = rgrp[p]]
      /\ lk' = [lk EXCEPT ![g] = Nobody] /\ chain' = [chain EXCEPT ![g] = {}]
      /\ pc' = [pc EXCEPT ![p] = "close"]
      /\ state' = state /\ rendtag' = rendtag /\ rendval' = rendval /\ val' = val
      /\ partner' = partner /\ debug' = debug /\ nnote' = nnote /\ notified' = notified
      /\ on' = on
    BY DEF RforkRend, Goto, rend, notes
<1>2. \A x \in Poster : pc[x] = "unlock" => on[x] \in Proc /\ on[x] /= p
    BY <1>1 DEF IInv, PosterInv, InSched
<1>3. \A x \in Proc : rgrp[x] /= g
    BY DEF RforkRend, Fresh
<1>4. TypeOK'
    BY <1>1, RendezvousAssumption DEF IInv, TypeOK
<1>5. PcInv'
    BY <1>1, RendezvousAssumption DEF IInv, TypeOK, PcInv
<1>6. StateInv'
    BY <1>1, RendezvousAssumption DEF IInv, TypeOK, StateInv, InSched
<1>7. ChainInv'
    BY <1>1, RendezvousAssumption DEF IInv, TypeOK, ChainInv, InSched
<1>8. MetInv'
    BY <1>1, <1>3 DEF IInv, TypeOK, StateInv, MetInv
<1>9. PartnerInv'
    BY <1>1, RendezvousAssumption DEF IInv, TypeOK, PartnerInv, InSched
<1>10. LockInv'
    BY <1>1, <1>2, <1>3, RendezvousAssumption DEF IInv, TypeOK, LockInv, HoldsGroup
<1>11. PosterInv'
    BY <1>1, RendezvousAssumption DEF IInv, TypeOK, PosterInv, InSched
<1>12. ValInv'
    BY <1>1, RendezvousAssumption DEF IInv, TypeOK, ValInv
<1>13. NobodyMissed'
    BY <1>1, RendezvousAssumption DEF IInv, TypeOK, ChainInv, InSched, NobodyMissed
<1> QED BY <1>4, <1>5, <1>6, <1>7, <1>8, <1>9, <1>10, <1>11, <1>12, <1>13 DEF IInv

LEMMA CloseIInv ==
    ASSUME IInv, NEW p \in Proc, NEW to \in {"user", "exit"}, Closergrp(p, to),
           pc[p] = "close", state[p] = IF to = "user" THEN "Running" ELSE "Dead",
           UNCHANGED <<state, rgrp, lk, chain, rend, val, partner, notes>>
    PROVE  IInv'
<1>1. /\ old' = [old EXCEPT ![p] = NoGroup] /\ pc' = [pc EXCEPT ![p] = to]
      /\ state' = state /\ rgrp' = rgrp /\ lk' = lk /\ chain' = chain
      /\ rendtag' = rendtag /\ rendval' = rendval /\ val' = val /\ partner' = partner
      /\ debug' = debug /\ nnote' = nnote /\ notified' = notified /\ on' = on
    BY DEF Closergrp, Goto, rend, notes
<1>2. TypeOK'
    BY <1>1, RendezvousAssumption DEF IInv, TypeOK
<1>3. PcInv'
    BY <1>1, RendezvousAssumption DEF IInv, TypeOK, PcInv
<1>4. StateInv'
    BY <1>1, RendezvousAssumption DEF IInv, TypeOK, StateInv, InSched
<1>5. ChainInv'
    BY <1>1, RendezvousAssumption DEF IInv, TypeOK, ChainInv, InSched
<1>6. MetInv'
    BY <1>1, RendezvousAssumption DEF IInv, TypeOK, MetInv
<1>7. PartnerInv'
    BY <1>1, RendezvousAssumption DEF IInv, TypeOK, PartnerInv, InSched
<1>8. LockInv'
    BY <1>1, RendezvousAssumption DEF IInv, TypeOK, LockInv, HoldsGroup
<1>9. PosterInv'
    BY <1>1, RendezvousAssumption DEF IInv, TypeOK, PosterInv, InSched
<1>10. ValInv'
    BY <1>1, RendezvousAssumption DEF IInv, TypeOK, ValInv
<1>11. NobodyMissed'
    BY <1>1, RendezvousAssumption DEF IInv, TypeOK, ChainInv, InSched, NobodyMissed
<1> QED BY <1>2, <1>3, <1>4, <1>5, <1>6, <1>7, <1>8, <1>9, <1>10, <1>11 DEF IInv

LEMMA PexitIInv ==
    ASSUME IInv, NEW p \in Proc, Pexit(p)
    PROVE  IInv'
<1>1. /\ pc[p] = "user" /\ debug[p] = Nobody
      /\ old' = [old EXCEPT ![p] = rgrp[p]] /\ rgrp' = [rgrp EXCEPT ![p] = NoGroup]
      /\ state' = [state EXCEPT ![p] = "Dead"] /\ pc' = [pc EXCEPT ![p] = "close"]
      /\ lk' = lk /\ chain' = chain /\ rendtag' = rendtag /\ rendval' = rendval
      /\ val' = val /\ partner' = partner /\ debug' = debug /\ nnote' = nnote
      /\ notified' = notified /\ on' = on
    BY DEF Pexit, Goto, rend, notes
<1>2. \A x \in Poster : pc[x] = "unlock" => on[x] \in Proc /\ on[x] /= p
    BY <1>1 DEF IInv, PosterInv, InSched
<1>3. TypeOK'
    BY <1>1, RendezvousAssumption DEF IInv, TypeOK
<1>4. PcInv'
    BY <1>1, RendezvousAssumption DEF IInv, TypeOK, PcInv
<1>5. StateInv'
    BY <1>1, RendezvousAssumption DEF IInv, TypeOK, StateInv, InSched
<1>6. ChainInv'
    BY <1>1, RendezvousAssumption DEF IInv, TypeOK, ChainInv, InSched
<1>7. MetInv'
    BY <1>1, RendezvousAssumption DEF IInv, TypeOK, MetInv
<1>8. PartnerInv'
    BY <1>1, RendezvousAssumption DEF IInv, TypeOK, PartnerInv, InSched
<1>9. LockInv'
    BY <1>1, <1>2, RendezvousAssumption DEF IInv, TypeOK, LockInv, HoldsGroup
<1>10. PosterInv'
    BY <1>1, RendezvousAssumption DEF IInv, TypeOK, PosterInv, InSched
<1>11. ValInv'
    BY <1>1, RendezvousAssumption DEF IInv, TypeOK, ValInv
<1>12. NobodyMissed'
    BY <1>1, RendezvousAssumption DEF IInv, TypeOK, ChainInv, InSched, NobodyMissed
<1> QED BY <1>3, <1>4, <1>5, <1>6, <1>7, <1>8, <1>9, <1>10, <1>11, <1>12 DEF IInv

LEMMA PexitSchedIInv ==
    ASSUME IInv, NEW p \in Proc, PexitSched(p)
    PROVE  IInv'
<1>1. /\ pc[p] = "exit" /\ debug[p] = Nobody
      /\ pc' = [pc EXCEPT ![p] = "dead"]
      /\ state' = state /\ rgrp' = rgrp /\ old' = old /\ lk' = lk
      /\ chain' = chain /\ rendtag' = rendtag /\ rendval' = rendval /\ val' = val
      /\ partner' = partner /\ debug' = debug /\ nnote' = nnote /\ notified' = notified
      /\ on' = on
    BY DEF PexitSched, Goto, groups, rend, notes
<1>2. TypeOK'
    BY <1>1, RendezvousAssumption DEF IInv, TypeOK
<1>3. PcInv'
    BY <1>1, RendezvousAssumption DEF IInv, TypeOK, PcInv
<1>4. StateInv'
    BY <1>1, RendezvousAssumption DEF IInv, TypeOK, StateInv, InSched
<1>5. ChainInv'
    BY <1>1, RendezvousAssumption DEF IInv, TypeOK, ChainInv, InSched
<1>6. MetInv'
    BY <1>1, RendezvousAssumption DEF IInv, TypeOK, MetInv
<1>7. PartnerInv'
    BY <1>1, RendezvousAssumption DEF IInv, TypeOK, PartnerInv, InSched
<1>8. LockInv'
    BY <1>1, RendezvousAssumption DEF IInv, TypeOK, LockInv, HoldsGroup
<1>9. PosterInv'
    BY <1>1, RendezvousAssumption DEF IInv, TypeOK, PosterInv, InSched
<1>10. ValInv'
    BY <1>1, RendezvousAssumption DEF IInv, TypeOK, ValInv
<1>11. NobodyMissed'
    BY <1>1, RendezvousAssumption DEF IInv, TypeOK, ChainInv, InSched, NobodyMissed
<1> QED BY <1>2, <1>3, <1>4, <1>5, <1>6, <1>7, <1>8, <1>9, <1>10, <1>11 DEF IInv

LEMMA RforkProcIInv ==
    ASSUME IInv, NEW p \in Proc, NEW q \in Proc, RforkProc(q, p)
    PROVE  IInv'
<1>1. /\ pc[q] = "user" /\ pc[p] = "dead"
      /\ rgrp' = [rgrp EXCEPT ![p] = rgrp[q]] /\ state' = [state EXCEPT ![p] = "Running"]
      /\ nnote' = [nnote EXCEPT ![p] = nnote[q]] /\ notified' = [notified EXCEPT ![p] = FALSE]
      /\ pc' = [pc EXCEPT ![p] = "user"]
      /\ old' = old /\ lk' = lk /\ chain' = chain /\ rendtag' = rendtag
      /\ rendval' = rendval /\ val' = val /\ partner' = partner /\ debug' = debug
      /\ on' = on
    BY DEF RforkProc, Goto, rend
<1>2. \A x \in Poster : pc[x] = "unlock" => on[x] \in Proc /\ on[x] /= p
    BY <1>1 DEF IInv, PosterInv, InSched
<1>3. TypeOK'
    BY <1>1, RendezvousAssumption DEF IInv, TypeOK
<1>4. PcInv'
    BY <1>1, RendezvousAssumption DEF IInv, TypeOK, PcInv
<1>5. StateInv'
    BY <1>1, RendezvousAssumption DEF IInv, TypeOK, StateInv, InSched
<1>6. ChainInv'
    BY <1>1, RendezvousAssumption DEF IInv, TypeOK, ChainInv, InSched
<1>7. MetInv'
    BY <1>1, RendezvousAssumption DEF IInv, TypeOK, MetInv
<1>8. PartnerInv'
    BY <1>1, RendezvousAssumption DEF IInv, TypeOK, PartnerInv, InSched
<1>9. LockInv'
    BY <1>1, <1>2, RendezvousAssumption DEF IInv, TypeOK, LockInv, HoldsGroup
<1>10. PosterInv'
    BY <1>1, RendezvousAssumption DEF IInv, TypeOK, PosterInv, InSched
<1>11. ValInv'
    BY <1>1, RendezvousAssumption DEF IInv, TypeOK, ValInv
<1>12. NobodyMissed'
    BY <1>1, RendezvousAssumption DEF IInv, TypeOK, ChainInv, InSched, NobodyMissed
<1> QED BY <1>3, <1>4, <1>5, <1>6, <1>7, <1>8, <1>9, <1>10, <1>11, <1>12 DEF IInv

LEMMA PostnoteIInv ==
    ASSUME IInv, NEW a \in Poster, NEW p \in Proc, Postnote(a, p)
    PROVE  IInv'
<1>1. /\ pc[a] = "idle" /\ debug[p] = Nobody /\ pc[p] /= "dead"
      /\ debug' = [debug EXCEPT ![p] = a] /\ on' = [on EXCEPT ![a] = p]
      /\ nnote' = [nnote EXCEPT ![p] = IF @ < NNOTE THEN @ + 1 ELSE @]
      /\ pc' = [pc EXCEPT ![a] = "check"]
      /\ state' = state /\ rgrp' = rgrp /\ old' = old /\ lk' = lk
      /\ chain' = chain /\ rendtag' = rendtag /\ rendval' = rendval /\ val' = val
      /\ partner' = partner /\ notified' = notified
    BY DEF Postnote, Goto, groups, rend
<1>2. TypeOK'
    BY <1>1, RendezvousAssumption DEF IInv, TypeOK
<1>3. PcInv'
    BY <1>1, RendezvousAssumption DEF IInv, TypeOK, PcInv
<1>4. StateInv'
    BY <1>1, RendezvousAssumption DEF IInv, TypeOK, StateInv, InSched
<1>5. ChainInv'
    BY <1>1, RendezvousAssumption DEF IInv, TypeOK, ChainInv, InSched
<1>6. MetInv'
    BY <1>1, RendezvousAssumption DEF IInv, TypeOK, MetInv
<1>7. PartnerInv'
    BY <1>1, RendezvousAssumption DEF IInv, TypeOK, PartnerInv, InSched
<1>8. LockInv'
    BY <1>1, RendezvousAssumption DEF IInv, TypeOK, LockInv, HoldsGroup
<1>9. PosterInv'
    BY <1>1, RendezvousAssumption DEF IInv, TypeOK, PosterInv, InSched
<1>10. ValInv'
    BY <1>1, RendezvousAssumption DEF IInv, TypeOK, ValInv
<1>11. NobodyMissed'
    BY <1>1, RendezvousAssumption DEF IInv, TypeOK, ChainInv, InSched, NobodyMissed
<1> QED BY <1>2, <1>3, <1>4, <1>5, <1>6, <1>7, <1>8, <1>9, <1>10, <1>11 DEF IInv

LEMMA PostnoteCheckIInv ==
    ASSUME IInv, NEW a \in Poster, PostnoteCheck(a)
    PROVE  IInv'
<1>1. /\ pc[a] = "check"
      /\ pc' = [pc EXCEPT ![a] = IF state[on[a]] = "Rendezvous" THEN "lock" ELSE "out"]
      /\ state' = state /\ rgrp' = rgrp /\ old' = old /\ lk' = lk
      /\ chain' = chain /\ rendtag' = rendtag /\ rendval' = rendval /\ val' = val
      /\ partner' = partner /\ debug' = debug /\ nnote' = nnote /\ notified' = notified
      /\ on' = on
    BY DEF PostnoteCheck, Goto, groups, rend, notes
<1>2. on[a] \in Proc /\ (state[on[a]] = "Rendezvous" => InSched(on[a]))
    BY <1>1 DEF IInv, PcInv, StateInv, PosterInv, InSched
<1>3. TypeOK'
    BY <1>1, RendezvousAssumption DEF IInv, TypeOK
<1>4. PcInv'
    BY <1>1, RendezvousAssumption DEF IInv, TypeOK, PcInv
<1>5. StateInv'
    BY <1>1, RendezvousAssumption DEF IInv, TypeOK, StateInv, InSched
<1>6. ChainInv'
    BY <1>1, RendezvousAssumption DEF IInv, TypeOK, ChainInv, InSched
<1>7. MetInv'
    BY <1>1, RendezvousAssumption DEF IInv, TypeOK, MetInv
<1>8. PartnerInv'
    BY <1>1, RendezvousAssumption DEF IInv, TypeOK, PartnerInv, InSched
<1>9. LockInv'
    BY <1>1, RendezvousAssumption DEF IInv, TypeOK, LockInv, HoldsGroup
<1>10. PosterInv'
    BY <1>1, <1>2, RendezvousAssumption DEF IInv, TypeOK, PosterInv, InSched
<1>11. ValInv'
    BY <1>1, RendezvousAssumption DEF IInv, TypeOK, ValInv
<1>12. NobodyMissed'
    BY <1>1, RendezvousAssumption DEF IInv, TypeOK, ChainInv, InSched, NobodyMissed
<1> QED BY <1>3, <1>4, <1>5, <1>6, <1>7, <1>8, <1>9, <1>10, <1>11, <1>12 DEF IInv

LEMMA PostnotePullOutIInv ==
    ASSUME IInv, NEW a \in Poster, PostnotePullOut(a), state[on[a]] = "Rendezvous"
    PROVE  IInv'
<1>1. /\ pc[a] = "lock" /\ lk[rgrp[on[a]]] = Nobody
      /\ lk' = [lk EXCEPT ![rgrp[on[a]]] = a] /\ rendval' = [rendval EXCEPT ![on[a]] = Interrupted]
      /\ chain' = [chain EXCEPT ![rgrp[on[a]]] = @ \ {on[a]}]
      /\ state' = [state EXCEPT ![on[a]] = "Ready"] /\ pc' = [pc EXCEPT ![a] = "unlock"]
      /\ rgrp' = rgrp /\ old' = old /\ rendtag' = rendtag /\ val' = val
      /\ partner' = partner /\ debug' = debug /\ nnote' = nnote /\ notified' = notified
      /\ on' = on
    BY DEF PostnotePullOut, Goto, groups, notes
<1>2. on[a] \in Proc /\ rgrp[on[a]] \in Group
    BY <1>1 DEF IInv, StateInv, PosterInv
<1>3. \A x \in Proc : partner[x] /= on[a]
    BY <1>1, <1>2, RendezvousAssumption DEF IInv, StateInv, PartnerInv, LockInv, HoldsGroup
<1>4. TypeOK'
    BY <1>1, RendezvousAssumption DEF IInv, TypeOK
<1>5. PcInv'
    BY <1>1, RendezvousAssumption DEF IInv, TypeOK, PcInv
<1>6. StateInv'
    BY <1>1, RendezvousAssumption DEF IInv, TypeOK, StateInv, InSched
<1>7. ChainInv'
    BY <1>1, RendezvousAssumption DEF IInv, TypeOK, ChainInv, InSched
<1>8. MetInv'
    BY <1>1, RendezvousAssumption DEF IInv, TypeOK, MetInv
<1>9. PartnerInv'
    BY <1>1, <1>2, <1>3 DEF IInv, TypeOK, PartnerInv, InSched
<1>10. LockInv'
    BY <1>1, RendezvousAssumption DEF IInv, TypeOK, LockInv, HoldsGroup
<1>11. PosterInv'
    BY <1>1, RendezvousAssumption DEF IInv, TypeOK, PosterInv, InSched
<1>12. ValInv'
    BY <1>1, RendezvousAssumption DEF IInv, TypeOK, ValInv
<1>13. NobodyMissed'
    BY <1>1, RendezvousAssumption DEF IInv, TypeOK, ChainInv, InSched, NobodyMissed
<1> QED BY <1>4, <1>5, <1>6, <1>7, <1>8, <1>9, <1>10, <1>11, <1>12, <1>13 DEF IInv

LEMMA PostnoteNothingIInv ==
    ASSUME IInv, NEW a \in Poster, PostnotePullOut(a), state[on[a]] /= "Rendezvous"
    PROVE  IInv'
<1>1. /\ pc[a] = "lock" /\ lk[rgrp[on[a]]] = Nobody
      /\ lk' = [lk EXCEPT ![rgrp[on[a]]] = a] /\ pc' = [pc EXCEPT ![a] = "unlock"]
      /\ state' = state /\ rgrp' = rgrp /\ old' = old /\ chain' = chain
      /\ rendtag' = rendtag /\ rendval' = rendval /\ val' = val /\ partner' = partner
      /\ debug' = debug /\ nnote' = nnote /\ notified' = notified /\ on' = on
    BY DEF PostnotePullOut, Goto, groups, notes
<1>2. TypeOK'
    BY <1>1, RendezvousAssumption DEF IInv, TypeOK
<1>3. PcInv'
    BY <1>1, RendezvousAssumption DEF IInv, TypeOK, PcInv
<1>4. StateInv'
    BY <1>1, RendezvousAssumption DEF IInv, TypeOK, StateInv, InSched
<1>5. ChainInv'
    BY <1>1, RendezvousAssumption DEF IInv, TypeOK, ChainInv, InSched
<1>6. MetInv'
    BY <1>1, RendezvousAssumption DEF IInv, TypeOK, MetInv
<1>7. PartnerInv'
    BY <1>1, RendezvousAssumption DEF IInv, TypeOK, PartnerInv, InSched
<1>8. LockInv'
    BY <1>1, RendezvousAssumption DEF IInv, TypeOK, LockInv, HoldsGroup
<1>9. PosterInv'
    BY <1>1, RendezvousAssumption DEF IInv, TypeOK, PosterInv, InSched
<1>10. ValInv'
    BY <1>1, RendezvousAssumption DEF IInv, TypeOK, ValInv
<1>11. NobodyMissed'
    BY <1>1, RendezvousAssumption DEF IInv, TypeOK, ChainInv, InSched, NobodyMissed
<1> QED BY <1>2, <1>3, <1>4, <1>5, <1>6, <1>7, <1>8, <1>9, <1>10, <1>11 DEF IInv

LEMMA PostnoteUnlockIInv ==
    ASSUME IInv, NEW a \in Poster, PostnoteUnlock(a)
    PROVE  IInv'
<1>1. /\ pc[a] = "unlock"
      /\ lk' = [lk EXCEPT ![rgrp[on[a]]] = Nobody] /\ pc' = [pc EXCEPT ![a] = "out"]
      /\ state' = state /\ rgrp' = rgrp /\ old' = old /\ chain' = chain
      /\ rendtag' = rendtag /\ rendval' = rendval /\ val' = val /\ partner' = partner
      /\ debug' = debug /\ nnote' = nnote /\ notified' = notified /\ on' = on
    BY DEF PostnoteUnlock, Goto, groups, rend, notes
<1>2. TypeOK'
    BY <1>1, RendezvousAssumption DEF IInv, TypeOK
<1>3. PcInv'
    BY <1>1, RendezvousAssumption DEF IInv, TypeOK, PcInv
<1>4. StateInv'
    BY <1>1, RendezvousAssumption DEF IInv, TypeOK, StateInv, InSched
<1>5. ChainInv'
    BY <1>1, RendezvousAssumption DEF IInv, TypeOK, ChainInv, InSched
<1>6. MetInv'
    BY <1>1, RendezvousAssumption DEF IInv, TypeOK, MetInv
<1>7. PartnerInv'
    BY <1>1, RendezvousAssumption DEF IInv, TypeOK, PartnerInv, InSched
<1>8. LockInv'
    BY <1>1, RendezvousAssumption DEF IInv, TypeOK, LockInv, HoldsGroup
<1>9. PosterInv'
    BY <1>1, RendezvousAssumption DEF IInv, TypeOK, PosterInv, InSched
<1>10. ValInv'
    BY <1>1, RendezvousAssumption DEF IInv, TypeOK, ValInv
<1>11. NobodyMissed'
    BY <1>1, RendezvousAssumption DEF IInv, TypeOK, ChainInv, InSched, NobodyMissed
<1> QED BY <1>2, <1>3, <1>4, <1>5, <1>6, <1>7, <1>8, <1>9, <1>10, <1>11 DEF IInv

LEMMA PostnoteOutIInv ==
    ASSUME IInv, NEW a \in Poster, PostnoteOut(a)
    PROVE  IInv'
<1>1. /\ pc[a] = "out"
      /\ debug' = [debug EXCEPT ![on[a]] = Nobody] /\ on' = [on EXCEPT ![a] = Nobody]
      /\ pc' = [pc EXCEPT ![a] = "idle"]
      /\ state' = state /\ rgrp' = rgrp /\ old' = old /\ lk' = lk
      /\ chain' = chain /\ rendtag' = rendtag /\ rendval' = rendval /\ val' = val
      /\ partner' = partner /\ nnote' = nnote /\ notified' = notified
    BY DEF PostnoteOut, Goto, groups, rend
<1>2. TypeOK'
    BY <1>1, RendezvousAssumption DEF IInv, TypeOK
<1>3. PcInv'
    BY <1>1, RendezvousAssumption DEF IInv, TypeOK, PcInv
<1>4. StateInv'
    BY <1>1, RendezvousAssumption DEF IInv, TypeOK, StateInv, InSched
<1>5. ChainInv'
    BY <1>1, RendezvousAssumption DEF IInv, TypeOK, ChainInv, InSched
<1>6. MetInv'
    BY <1>1, RendezvousAssumption DEF IInv, TypeOK, MetInv
<1>7. PartnerInv'
    BY <1>1, RendezvousAssumption DEF IInv, TypeOK, PartnerInv, InSched
<1>8. LockInv'
    BY <1>1, RendezvousAssumption DEF IInv, TypeOK, LockInv, HoldsGroup
<1>9. PosterInv'
    BY <1>1, RendezvousAssumption DEF IInv, TypeOK, PosterInv, InSched
<1>10. ValInv'
    BY <1>1, RendezvousAssumption DEF IInv, TypeOK, ValInv
<1>11. NobodyMissed'
    BY <1>1, RendezvousAssumption DEF IInv, TypeOK, ChainInv, InSched, NobodyMissed
<1> QED BY <1>2, <1>3, <1>4, <1>5, <1>6, <1>7, <1>8, <1>9, <1>10, <1>11 DEF IInv

-----------------------------------------------------------------------------
LEMMA InitIInv == Init => IInv
<1> SUFFICES ASSUME Init PROVE IInv
    OBVIOUS
<1>1. TypeOK
    BY RendezvousAssumption DEF Init, TypeOK
<1>2. \A p \in Proc : pc[p] = "user" /\ state[p] = "Running" /\ rgrp[p] \in Group
    BY RendezvousAssumption DEF Init
<1>3. \A a \in Poster : pc[a] = "idle"
    BY RendezvousAssumption DEF Init
<1>4. PcInv /\ StateInv /\ ChainInv /\ MetInv /\ NobodyMissed
    BY <1>2, <1>3 DEF Init, PcInv, StateInv, ChainInv, MetInv, NobodyMissed, InSched
<1>5. PartnerInv /\ LockInv
    BY <1>2, <1>3, RendezvousAssumption DEF Init, PartnerInv, LockInv, HoldsGroup
<1>6. PosterInv /\ ValInv
    BY <1>2, <1>3, RendezvousAssumption DEF Init, PosterInv, ValInv
<1> QED BY <1>1, <1>4, <1>5, <1>6 DEF IInv

LEMMA ProcStepIInv ==
    ASSUME IInv, NEW p \in Proc, Step(p)
    PROVE  IInv'
<1>1. CASE Meet(p)
    BY <1>1, MeetIInv DEF Meet, MeetWith
<1>2. CASE RforkClose(p)
    BY <1>2, CloseIInv DEF RforkClose
<1>3. CASE PexitClose(p)
    BY <1>3, CloseIInv DEF PexitClose
<1> QED BY <1>1, <1>2, <1>3, MeetReadyIInv, WaitIInv, SchedIInv, ResumeIInv, NotifyIInv,
       PexitSchedIInv DEF Step

LEMMA PosterStepIInv ==
    ASSUME IInv, NEW a \in Poster, PosterStep(a)
    PROVE  IInv'
    BY PostnoteCheckIInv, PostnotePullOutIInv, PostnoteNothingIInv, PostnoteUnlockIInv,
       PostnoteOutIInv DEF PosterStep

LEMMA StepIInv == IInv /\ [Next]_vars => IInv'
<1> SUFFICES ASSUME IInv, [Next]_vars PROVE IInv'
    OBVIOUS
<1>1. CASE \E p \in Proc : Step(p) \/ SysNoted(p) \/ \E t \in Tag : Sysrendezvous(p, t)
    BY <1>1, ProcStepIInv, SysNotedIInv, SysrendezvousIInv
<1>2. CASE \E p \in Leaver :
              \/ Pexit(p)
              \/ \E g \in Group : RforkRend(p, g)
              \/ \E q \in Proc : RforkProc(q, p)
    BY <1>2, PexitIInv, RforkRendIInv, RforkProcIInv, RendezvousAssumption
<1>3. CASE \E a \in Poster : PosterStep(a) \/ \E p \in Noted : Postnote(a, p)
    BY <1>3, PosterStepIInv, PostnoteIInv, RendezvousAssumption
<1>4. CASE UNCHANGED vars
    BY <1>4 DEF vars, IInv, TypeOK, PcInv, StateInv, ChainInv, MetInv, PartnerInv,
       LockInv, PosterInv, ValInv, NobodyMissed, InSched, HoldsGroup
<1> QED BY <1>1, <1>2, <1>3, <1>4 DEF Next

LEMMA InvIInv == Spec => []IInv
    BY InitIInv, StepIInv, PTL DEF Spec

-----------------------------------------------------------------------------
(* Two processes never wait with the same tag in the same group: the       *)
(* second one to call rendezvous has met the first.                        *)
THEOREM RendezvousNobodyMissed == Spec => []NobodyMissed
<1>1. IInv => NobodyMissed
    BY DEF IInv
<1> QED BY <1>1, InvIInv, PTL

(* The hash chains hold exactly the processes that wait and have not been  *)
(* met, each in its own group, whatever notes, rfork and exit do.          *)
THEOREM RendezvousChainIsWaiting == Spec => []ChainIsWaiting
<1>1. IInv => ChainIsWaiting
    BY DEF IInv, ChainInv, MetInv, ChainIsWaiting
<1> QED BY <1>1, InvIInv, PTL

(* postnote finds a group to lock when it follows p->rgrp, and the same    *)
(* one, which it holds, when it follows it again to unlock it.             *)
THEOREM RendezvousUnlocksItsLock == Spec => []UnlocksItsLock
<1>1. ASSUME IInv PROVE UnlocksItsLock
  <2>1. \A a \in Poster : pc[a] \in {"lock", "unlock"} =>
           on[a] \in Proc /\ rgrp[on[a]] \in Group
      BY <1>1 DEF IInv, StateInv, PosterInv, InSched
  <2> QED BY <1>1, <2>1 DEF IInv, LockInv, HoldsGroup, UnlocksItsLock
<1> QED BY <1>1, InvIInv, PTL

-----------------------------------------------------------------------------
(* The refinement.  Five actions matter to the abstract call; the others   *)
(* leave alone what Call looks at.                                         *)
Calls == [p \in Proc |-> Call(p)]

Quiet ==
    \A x \in Proc :
        /\ InSched(x)' <=> InSched(x)
        /\ val'[x] = val[x]
        /\ InSched(x) => /\ rendval'[x] = rendval[x]
                         /\ x \in chain'[rgrp'[x]] <=> x \in chain[rgrp[x]]

LEMMA QuietCalls ==
    ASSUME Quiet
    PROVE  Calls' = Calls
    BY DEF Quiet, Calls, Call, InSched

LEMMA ProcQuiet ==
    ASSUME IInv, NEW p \in Proc
    PROVE  /\ \A tag \in Tag : Sysrendezvous(p, tag) => Quiet
           /\ MeetReady(p) \/ Sched(p) \/ SysNoted(p) => Quiet
<1>1. ASSUME NEW tag \in Tag, Sysrendezvous(p, tag) PROVE Quiet
    BY <1>1 DEF IInv, TypeOK, Sysrendezvous, Goto, groups, Quiet, InSched
<1>2. ASSUME MeetReady(p) PROVE Quiet
    BY <1>2 DEF IInv, TypeOK, MeetReady, Goto, groups, rend, Quiet, InSched
<1>3. ASSUME Sched(p) PROVE Quiet
    BY <1>3 DEF IInv, TypeOK, Sched, Goto, groups, rend, Quiet, InSched
<1>4. ASSUME SysNoted(p) PROVE Quiet
    BY <1>4 DEF IInv, TypeOK, SysNoted, Goto, groups, rend, Quiet, InSched
<1> QED BY <1>1, <1>2, <1>3, <1>4

LEMMA GroupQuiet ==
    ASSUME IInv, NEW p \in Proc
    PROVE  /\ \A g \in Group : RforkRend(p, g) => Quiet
           /\ RforkClose(p) \/ PexitClose(p) \/ Pexit(p) \/ PexitSched(p) => Quiet
           /\ \A q \in Proc : RforkProc(q, p) => Quiet
<1>1. ASSUME NEW g \in Group, RforkRend(p, g) PROVE Quiet
  <2>1. /\ pc[p] = "user" /\ pc' = [pc EXCEPT ![p] = "close"] /\ rendval' = rendval
        /\ val' = val /\ rgrp' = [rgrp EXCEPT ![p] = g] /\ chain' = [chain EXCEPT ![g] = {}]
        /\ \A x \in Proc : rgrp[x] /= g
      BY <1>1 DEF RforkRend, Fresh, Goto, rend
  <2> QED BY <2>1 DEF IInv, TypeOK, StateInv, Quiet, InSched
<1>2. ASSUME RforkClose(p) \/ PexitClose(p) PROVE Quiet
    BY <1>2 DEF IInv, TypeOK, RforkClose, PexitClose, Closergrp, Goto, rend, Quiet, InSched
<1>3. ASSUME Pexit(p) PROVE Quiet
    BY <1>3 DEF IInv, TypeOK, Pexit, Goto, rend, Quiet, InSched
<1>4. ASSUME PexitSched(p) PROVE Quiet
    BY <1>4 DEF IInv, TypeOK, PexitSched, Goto, groups, rend, Quiet, InSched
<1>5. ASSUME NEW q \in Proc, RforkProc(q, p) PROVE Quiet
    BY <1>5 DEF IInv, TypeOK, RforkProc, Goto, rend, Quiet, InSched
<1> QED BY <1>1, <1>2, <1>3, <1>4, <1>5

LEMMA PosterQuiet ==
    ASSUME IInv, NEW a \in Poster
    PROVE  /\ \A p \in Proc : Postnote(a, p) => Quiet
           /\ PostnotePullOut(a) /\ state[on[a]] /= "Rendezvous" => Quiet
           /\ PostnoteCheck(a) \/ PostnoteUnlock(a) \/ PostnoteOut(a) => Quiet
<1>1. ASSUME NEW to, Goto(a, to), UNCHANGED <<groups, chain, rend, val>> PROVE Quiet
    BY <1>1, RendezvousAssumption DEF IInv, TypeOK, Goto, groups, rend, Quiet, InSched
<1>2. ASSUME PostnotePullOut(a), state[on[a]] /= "Rendezvous" PROVE Quiet
    BY <1>1, <1>2 DEF PostnotePullOut, rend
<1> QED BY <1>1, <1>2 DEF Postnote, PostnoteCheck, PostnoteUnlock, PostnoteOut

LEMMA WaitArrives ==
    ASSUME IInv, NEW p \in Proc, Wait(p)
    PROVE  Abstract!Next
<1>1. /\ pc[p] = "rlock" /\ pc' = [pc EXCEPT ![p] = "sched"] /\ rgrp' = rgrp /\ val' = val
      /\ rendval' = [rendval EXCEPT ![p] = p]
      /\ chain' = [chain EXCEPT ![rgrp[p]] = @ \cup {p}]
    BY DEF Wait, Goto, groups
<1>2. rgrp[p] \in Group /\ val[p] = NoVal
    BY <1>1 DEF IInv, StateInv, ValInv
<1>3. Call(p) = "idle" /\ Call(p)' = "waiting"
    BY <1>1, <1>2 DEF IInv, TypeOK, Call
<1>4. \A x \in Proc : x /= p => Call(x)' = Call(x)
    BY <1>1, <1>2 DEF IInv, TypeOK, Call
<1>5. Abstract!Arrive(p)
    BY <1>3, <1>4 DEF Abstract!Arrive
<1> QED BY <1>5 DEF Abstract!Next

LEMMA MeetMeets ==
    ASSUME IInv, NEW p \in Proc, Meet(p)
    PROVE  Abstract!Next
<1>1. PICK q \in Matches(p) : MeetWith(p, q)
    BY DEF Meet, MeetWith
<1>2. /\ pc[p] = "rlock" /\ pc' = [pc EXCEPT ![p] = "spin"] /\ rgrp' = rgrp
      /\ val' = [val EXCEPT ![p] = rendval[q]] /\ rendval' = [rendval EXCEPT ![q] = p]
      /\ chain' = [chain EXCEPT ![rgrp[p]] = @ \ {q}]
    BY <1>1 DEF Meet, MeetWith, Goto, groups
<1>3. rgrp[p] \in Group /\ val[p] = NoVal
    BY <1>2 DEF IInv, StateInv, ValInv
<1>4. /\ q \in Proc /\ q \in chain[rgrp[p]] /\ rendval[q] = q
      /\ rgrp[q] = rgrp[p] /\ InSched(q) /\ q /= p
    BY <1>2, <1>3 DEF IInv, ChainInv, Matches, InSched
<1>5. Call(p) = "idle" /\ Call(p)' = q
    BY <1>2, <1>3, <1>4, RendezvousAssumption DEF IInv, TypeOK, Call
<1>6. Call(q) = "waiting" /\ Call(q)' = p
    BY <1>2, <1>3, <1>4 DEF IInv, TypeOK, Call, InSched
<1>7. \A x \in Proc : x /= p /\ x /= q => Call(x)' = Call(x)
    BY <1>2, <1>3, <1>4 DEF IInv, TypeOK, Call
<1>8. Abstract!Meet(p, q)
    BY <1>4, <1>5, <1>6, <1>7 DEF Abstract!Meet
<1> QED BY <1>4, <1>8 DEF Abstract!Next

(* What the process got while it slept is what the call returns.           *)
LEMMA ResumeQuiet ==
    ASSUME IInv, NEW p \in Proc, Resume(p)
    PROVE  Calls' = Calls
<1>1. /\ pc[p] = "off" /\ state[p] = "Ready" /\ pc' = [pc EXCEPT ![p] = "ret"]
      /\ val' = [val EXCEPT ![p] = rendval[p]]
      /\ rgrp' = rgrp /\ chain' = chain /\ rendval' = rendval
    BY DEF Resume, Goto, groups, rend
<1>2. rgrp[p] \in Group /\ p \notin chain[rgrp[p]]
    BY <1>1 DEF IInv, StateInv, ChainInv
<1>3. Call(p)' = Call(p)
    BY <1>1, <1>2, RendezvousAssumption DEF IInv, TypeOK, Call
<1>4. \A x \in Proc : x /= p => Call(x)' = Call(x)
    BY <1>1 DEF IInv, TypeOK, Call
<1> QED BY <1>3, <1>4 DEF Calls

LEMMA NotifyReturns ==
    ASSUME IInv, NEW p \in Proc, Notify(p)
    PROVE  Abstract!Next \/ Calls' = Calls
<1>1. /\ pc[p] = "ret" /\ pc' = [pc EXCEPT ![p] = "user"] /\ rgrp' = rgrp
      /\ chain' = chain /\ val' = [val EXCEPT ![p] = NoVal]
      /\ rendval' = [rendval EXCEPT ![p] = Interrupted]
    BY DEF Notify, Forget, Goto, groups
<1>2. \A x \in Proc : x /= p => Call(x)' = Call(x)
    BY <1>1 DEF IInv, TypeOK, Call
<1>3. Call(p)' = "idle" /\ Call(p) = IF val[p] /= NoVal THEN val[p] ELSE "idle"
    BY <1>1 DEF IInv, TypeOK, Call
<1>4. CASE val[p] = NoVal
    BY <1>2, <1>3, <1>4 DEF Calls
<1>5. CASE val[p] /= NoVal
  <2>1. Call(p) \in Proc \cup {Interrupted}
      BY <1>3, <1>5 DEF IInv, TypeOK
  <2>2. Abstract!Return(p)
      BY <1>2, <1>3, <2>1 DEF Abstract!Return
  <2> QED BY <2>2 DEF Abstract!Next
<1> QED BY <1>4, <1>5

(* A note reaches only a process that nobody has met: one that was met is  *)
(* in no chain, but then whoever met it holds the Lock.                    *)
LEMMA PullOutInterrupts ==
    ASSUME IInv, NEW a \in Poster, PostnotePullOut(a), state[on[a]] = "Rendezvous"
    PROVE  Abstract!Next
<1>1. PICK p \in Proc : p = on[a]
    BY DEF IInv, PosterInv, PostnotePullOut
<1>2. /\ pc[a] = "lock" /\ lk[rgrp[p]] = Nobody /\ pc' = [pc EXCEPT ![a] = "unlock"]
      /\ rgrp' = rgrp /\ val' = val /\ rendval' = [rendval EXCEPT ![p] = Interrupted]
      /\ chain' = [chain EXCEPT ![rgrp[p]] = @ \ {p}] /\ state[p] = "Rendezvous"
    BY <1>1 DEF PostnotePullOut, Goto, groups
<1>3. rgrp[p] \in Group /\ InSched(p)
    BY <1>2 DEF IInv, StateInv, PcInv, InSched
<1>4. \A x \in Proc : partner[x] /= p
    BY <1>2, <1>3, RendezvousAssumption DEF IInv, PartnerInv, LockInv, HoldsGroup
<1>5. p \in chain[rgrp[p]]
    BY <1>2, <1>4 DEF IInv, MetInv
<1>6. Call(p) = "waiting" /\ Call(p)' = Interrupted
    BY <1>2, <1>3, <1>5, RendezvousAssumption DEF IInv, TypeOK, Call, InSched
<1>7. \A x \in Proc : x /= p => Call(x)' = Call(x)
    BY <1>2, <1>3, RendezvousAssumption DEF IInv, TypeOK, Call
<1>8. Abstract!Interrupt(p)
    BY <1>6, <1>7 DEF Abstract!Interrupt
<1> QED BY <1>8 DEF Abstract!Next

LEMMA StepExchange == IInv /\ [Next]_vars => [Abstract!Next]_Calls
<1> SUFFICES ASSUME IInv, [Next]_vars PROVE Abstract!Next \/ Calls' = Calls
    OBVIOUS
<1>1. CASE \E p \in Proc : Step(p) \/ SysNoted(p) \/ \E t \in Tag : Sysrendezvous(p, t)
    BY <1>1, ProcQuiet, GroupQuiet, QuietCalls, WaitArrives, MeetMeets, ResumeQuiet,
       NotifyReturns DEF Step
<1>2. CASE \E p \in Leaver :
              \/ Pexit(p)
              \/ \E g \in Group : RforkRend(p, g)
              \/ \E q \in Proc : RforkProc(q, p)
    BY <1>2, GroupQuiet, QuietCalls, RendezvousAssumption
<1>3. CASE \E a \in Poster : PosterStep(a) \/ \E p \in Noted : Postnote(a, p)
    BY <1>3, PosterQuiet, QuietCalls, PullOutInterrupts, RendezvousAssumption DEF PosterStep
<1>4. CASE UNCHANGED vars
    BY <1>4 DEF vars, Calls, Call
<1> QED BY <1>1, <1>2, <1>3, <1>4 DEF Next

LEMMA InitExchange == Init => Abstract!Init
    BY DEF Init, Abstract!Init, Call

(* The system call implements the exchange of rendezvous(2): the values    *)
(* change hands in one moment, each process gets the value of the one it   *)
(* met or ~0, and no note takes back what a process has got, although      *)
(* lookup, exchange, ready and the end of the call are separate steps that *)
(* notes, rfork and exit come between.                                     *)
THEOREM RendezvousImplementsExchange == Spec => ImplementsExchange
<1>1. Init => Abstract!Init
    BY InitExchange
<1>2. IInv /\ [Next]_vars => [Abstract!Next]_Calls
    BY StepExchange
<1> QED BY <1>1, <1>2, InvIInv, PTL DEF Spec, ImplementsExchange, Abstract!Spec, Calls
=============================================================================
