----------------------------- MODULE MntProofs -----------------------------
(***************************************************************************)
(* Proofs about the mount driver, for any number of processes, tags and    *)
(* interruptions and any rule by which processes share the tags: no tag is *)
(* used again while the server may answer it, and a process gets the reply *)
(* to its own request.                                                     *)
(*                                                                         *)
(* While the connection lasts the argument is about order.  What a process *)
(* holds is its request, the Tflush of it, the next Tflush... (OwnerInv,   *)
(* UniqueInv, ChainInv); of these the server answers earlier ones before   *)
(* later ones, or never (WorkOrder, ReplyOrder).  So when the answer to    *)
(* one of them is there, nothing is under way for it or for an earlier one *)
(* (DoneInv), and mntflushfree, which starts at the last, may free them    *)
(* all (FreeInv): what comes under a tag is for the request that has it    *)
(* (LiveInv).  After a hangup tags are free while replies to them are      *)
(* unread, but only a process that cannot write its request gets one of    *)
(* these, and it ends in an error (Exempt).                                *)
(*                                                                         *)
(* And about the Queues that carry such messages, for any limit, writes,   *)
(* reads and processes: the counters are right, no wakeup is lost, and a   *)
(* Queue is a stream of bytes.  A sleeper needs its flag until somebody    *)
(* takes the Queue across the mark where wakeups are given, so QioInv      *)
(* follows the flags from before the sleep (AboutToSleep), and counts      *)
(* there what a reader has in hand, which it may put back.  The bytes of a *)
(* Queue are the FlattenSeq of its blocks; all that the steps do to a list *)
(* is to split it, to join it and to shorten a block, so the lemmas are    *)
(* about these.                                                            *)
(***************************************************************************)
EXTENDS Mnt, Qio, SeqLemmas

(* The Mntrpcs in use.                                                     *)
Used == Tag \ rpcfree

(* A process has a request, the Tflush of it, the next Tflush... up to the *)
(* one that it works on, one of each depth.                                *)
OwnerInv ==
    /\ \A t \in Used :
          /\ asked[t] \in Proc
          /\ pc[asked[t]] /= "idle"
          /\ depth[t] <= depth[cur[asked[t]]]
    /\ \A t \in rpcfree : flushed[t] = NoTag /\ oldtag[t] = NoTag /\ depth[t] = 0

UniqueInv == \A t, u \in Used : asked[t] = asked[u] /\ depth[t] = depth[u] => t = u

ChainInv ==
    \A t \in Used :
        /\ flushed[t] = NoTag => depth[t] = 0 /\ oldtag[t] = NoTag
        /\ flushed[t] /= NoTag =>
              /\ flushed[t] \in Used /\ asked[flushed[t]] = asked[t]
              /\ depth[t] = depth[flushed[t]] + 1
              /\ oldtag[t] \in Used /\ asked[oldtag[t]] = asked[t]
              /\ depth[oldtag[t]] = 0

CurInv ==
    \A p \in Proc :
        /\ pc[p] /= "idle" => cur[p] \in Used /\ asked[cur[p]] = p
        /\ pc[p] = "end" => depth[cur[p]] = 0 /\ done[cur[p]]

(* A process that has not written its request, or will not look at the     *)
(* reply, may be given one that is for an earlier use of the tag.          *)
Exempt(t) == fails[asked[t]] \/ (pc[asked[t]] = "write" /\ cur[asked[t]] = t)

RpcInv == \A t \in Used : done[t] => reply[t] \in {"own", "Rflush"} \/ Exempt(t)

(* What the server has been sent under a tag, and what it answers.         *)
Request(t) == [tag |-> t, for |-> asked[t], depth |-> depth[t], old |-> oldtag[t]]
Reply == [tag : Tag, for : Proc \cup {NoProc}]

ServerInv ==
    /\ broken => work = {}
    /\ \A m \in work : m.tag \in Used /\ m = Request(m.tag)
    /\ replies \in Seq(Reply)
    /\ \A i \in 1 .. Len(replies) :
          replies[i].tag \in Used =>
              replies[i].for = asked[replies[i].tag] \/ Exempt(replies[i].tag)

Asked(t) == \E m \in work : m.tag = t
Answered(t) == \E i \in 1 .. Len(replies) : replies[i].tag = t
UnderWay(t) == Asked(t) \/ Answered(t)

(* Of one request, u is t or one that t flushes.                           *)
UpTo(u, t) == asked[u] = asked[t] /\ depth[u] <= depth[t]

LiveInv ==
    \A i \in 1 .. Len(replies) :
        replies[i].tag \in Used /\ replies[i].for = asked[replies[i].tag]

WriteInv ==
    \A p \in Proc : pc[p] = "write" => ~UnderWay(cur[p]) /\ ~done[cur[p]]

WorkOrder == \A t, u \in Used : Answered(t) /\ UpTo(u, t) => ~Asked(u)

ReplyOrder ==
    \A i, j \in 1 .. Len(replies) :
        i < j => ~UpTo(replies[j].tag, replies[i].tag)

DoneInv == \A t, u \in Used : done[t] /\ UpTo(u, t) => ~UnderWay(u)

FreeInv == \A t \in Used : pc[asked[t]] \in {"free", "end"} => ~UnderWay(t)

Connected ==
    LiveInv /\ WriteInv /\ WorkOrder /\ ReplyOrder /\ DoneInv /\ FreeInv

Frame == OwnerInv /\ UniqueInv /\ ChainInv /\ CurInv

IInv ==
    /\ TypeOK /\ Frame /\ RpcInv /\ ServerInv
    /\ ~broken => Connected

-----------------------------------------------------------------------------
LEMMA CurTag ==
    ASSUME IInv, NEW p \in Proc, pc[p] /= "idle"
    PROVE  cur[p] \in Used /\ cur[p] \in Tag /\ cur[p] \notin rpcfree /\ asked[cur[p]] = p
    BY DEF IInv, Frame, CurInv, Used

(* One process has one Mntrpc of each depth, and works on the last.        *)
LEMMA LastTag ==
    ASSUME IInv, NEW p \in Proc, pc[p] /= "idle", NEW u \in Used, UpTo(cur[p], u)
    PROVE  u = cur[p]
<1>1. cur[p] \in Used /\ asked[cur[p]] = p /\ cur[p] \in Tag /\ u \in Tag
    BY CurTag DEF Used
<1>2. asked[u] = p /\ depth[u] <= depth[cur[p]] /\ depth[cur[p]] <= depth[u]
    BY <1>1 DEF IInv, Frame, OwnerInv, UpTo
<1>3. depth[u] = depth[cur[p]]
    BY <1>1, <1>2 DEF IInv, TypeOK
<1> QED BY <1>1, <1>2, <1>3 DEF IInv, Frame, UniqueInv

LEMMA RepliesOfTags ==
    ASSUME IInv, NEW i \in 1 .. Len(replies)
    PROVE  replies[i] \in Reply /\ replies[i].tag \in Tag /\ replies[i].for \in Proc \cup {NoProc}
<1>1. replies[i] \in Reply
    BY ElementOfSeq DEF IInv, ServerInv
<1> QED BY <1>1 DEF Reply

(* What is under way while the connection lasts has a tag in use.          *)
LEMMA UnderWayUsed ==
    ASSUME IInv, ~broken, NEW t, UnderWay(t)
    PROVE  t \in Used
    BY DEF IInv, Connected, LiveInv, ServerInv, UnderWay, Asked, Answered

-----------------------------------------------------------------------------
(* Steps that change where processes are, and nothing that a tag depends   *)
(* on.  To free the chain a process needs the reply to its last request,   *)
(* or a connection that is hung up; one that does not write its request    *)
(* ends in an error.                                                       *)
LEMMA MoveIInv ==
    ASSUME IInv, UNCHANGED <<rpcs, cur, server>>, pc' \in [Proc -> PcSet],
           queue' \in SUBSET Tag, rip' \in Proc \cup {NoProc},
           mux' \in [Proc -> Tag \cup {NoTag}], fails' \in [Proc -> BOOLEAN],
           \A q \in Proc :
              /\ fails[q] => fails'[q]
              /\ pc'[q] = "idle" <=> pc[q] = "idle"
              /\ pc'[q] = "write" => pc[q] = "write"
              /\ pc[q] = "write" => pc'[q] = "write" \/ fails'[q]
              /\ pc'[q] = "end" => pc[q] = "end"
              /\ pc'[q] = "free" => pc[q] = "free" \/ broken \/ done[cur[q]]
    PROVE  IInv'
<1>1. /\ rpcfree' = rpcfree /\ done' = done /\ reply' = reply /\ flushed' = flushed
      /\ oldtag' = oldtag /\ depth' = depth /\ asked' = asked /\ cur' = cur
      /\ work' = work /\ replies' = replies /\ broken' = broken
    BY DEF rpcs, links, server
<1>2. TypeOK'
    BY <1>1 DEF IInv, TypeOK
<1>3. Frame'
  <2>1. OwnerInv' /\ UniqueInv' /\ ChainInv'
      BY <1>1 DEF IInv, Frame, OwnerInv, UniqueInv, ChainInv, Used
  <2>2. CurInv'
      BY <1>1 DEF IInv, Frame, CurInv, Used
  <2> QED BY <2>1, <2>2 DEF Frame
<1>4. \A t \in Used : asked[t] \in Proc /\ (Exempt(t) => Exempt(t)')
    BY <1>1 DEF IInv, Frame, OwnerInv, Exempt
<1>5. RpcInv'
    BY <1>1, <1>4 DEF IInv, RpcInv, Used
<1>6. ServerInv'
  <2>1. \A t : Request(t)' = Request(t)
      BY <1>1 DEF Request
  <2> QED BY <1>1, <1>4, <2>1 DEF IInv, ServerInv, Used
<1>7. \A t : (Asked(t)' <=> Asked(t)) /\ (Answered(t)' <=> Answered(t))
    BY <1>1 DEF Asked, Answered
<1>8. ASSUME ~broken PROVE Connected'
  <2>1. LiveInv' /\ WorkOrder' /\ ReplyOrder' /\ DoneInv'
      BY <1>1, <1>7, <1>8 DEF IInv, Connected, LiveInv, WorkOrder, ReplyOrder, DoneInv,
         UnderWay, UpTo, Used
  <2>2. WriteInv'
      BY <1>1, <1>7, <1>8 DEF IInv, Connected, WriteInv, UnderWay
  <2>3. ASSUME NEW t \in Used, pc'[asked[t]] \in {"free", "end"} PROVE ~UnderWay(t)
    <3> DEFINE q == asked[t]
    <3>1. q \in Proc /\ pc[q] /= "idle" /\ depth[t] <= depth[cur[q]]
        BY DEF IInv, Frame, OwnerInv
    <3>2. CASE pc[q] \in {"free", "end"}
        BY <1>8, <3>2 DEF IInv, Connected, FreeInv
    <3>3. CASE pc[q] \notin {"free", "end"}
      <4>1. done[cur[q]]
          BY <1>8, <2>3, <3>1, <3>3
      <4>2. cur[q] \in Used /\ UpTo(t, cur[q])
          BY <3>1, CurTag DEF UpTo
      <4> QED BY <1>8, <4>1, <4>2 DEF IInv, Connected, DoneInv
    <3> QED BY <3>2, <3>3
  <2>4. FreeInv'
      BY <1>1, <1>7, <2>3 DEF FreeInv, UnderWay, Used
  <2> QED BY <2>1, <2>2, <2>4 DEF Connected
<1> QED BY <1>1, <1>2, <1>3, <1>5, <1>6, <1>8 DEF IInv

LEMMA MntgateIInv ==
    ASSUME IInv, NEW p \in Proc, NEW next \in {"free", "flush"}, Mntgate(p, next),
           next = "free" => broken \/ done[cur[p]],
           pc[p] = "read", UNCHANGED <<rpcs, queue, cur, mux, server>>,
           fails' = fails \/ fails' = [fails EXCEPT ![p] = TRUE]
    PROVE  IInv'
<1>1. rip' = NoProc /\ queue' = queue /\ mux' = mux
    BY DEF Mntgate
<1>2. PICK Q \in SUBSET Proc :
        /\ \A q \in Q : pc[q] = "asleep"
        /\ pc' = [q \in Proc |-> IF q = p THEN next ELSE IF q \in Q THEN "woken" ELSE pc[q]]
  <2>1. CASE pc' = [pc EXCEPT ![p] = next]
      BY <2>1, {} \in SUBSET Proc DEF IInv, TypeOK
  <2>2. CASE \E q \in Candidates : pc' = [pc EXCEPT ![p] = next, ![q] = "woken"]
    <3>1. PICK q \in Candidates : pc' = [pc EXCEPT ![p] = next, ![q] = "woken"]
        BY <2>2
    <3>2. q \in Proc /\ pc[q] = "asleep"
        BY DEF Candidates, SleepsOn
    <3>3. pc' = [x \in Proc |-> IF x = p THEN next ELSE IF x \in {q} THEN "woken" ELSE pc[x]]
        BY <3>1, <3>2 DEF IInv, TypeOK
    <3> QED BY <3>2, <3>3, {q} \in SUBSET Proc
  <2> QED BY <2>1, <2>2 DEF Mntgate, Goto
<1>3. pc' \in [Proc -> PcSet]
    BY <1>2 DEF IInv, TypeOK, PcSet
<1>4. fails' \in [Proc -> BOOLEAN] /\ \A q \in Proc : fails[q] => fails'[q]
    BY DEF IInv, TypeOK
<1> QED BY <1>1, <1>2, <1>3, <1>4, MoveIInv DEF IInv, TypeOK

LEMMA QuietIInv ==
    ASSUME IInv, NEW p \in Proc,
           \/ WriteError(p) \/ Gate(p) \/ Sleep(p) \/ SleepInterrupted(p) \/ Woken(p)
           \/ ReadOwnDone(p) \/ MuxWakeup(p) \/ ReadInterrupted(p) \/ ReadError(p)
    PROVE  IInv'
<1>1. ASSUME NEW to \in {"gate", "sleep", "asleep", "woken", "read", "flush", "free"},
             pc[p] \notin {"idle", "end"}, Goto(p, to), UNCHANGED <<rpcs, queue, cur, mux, server>>,
             to = "free" => broken \/ done[cur[p]], pc[p] = "write" => fails'[p],
             rip' \in Proc \cup {NoProc},
             fails' = fails \/ fails' = [fails EXCEPT ![p] = TRUE]
      PROVE  IInv'
  <2>1. pc' \in [Proc -> PcSet] /\ pc'[p] = to /\ \A q \in Proc : q /= p => pc'[q] = pc[q]
      BY <1>1 DEF Goto, IInv, TypeOK, PcSet
  <2>2. fails' \in [Proc -> BOOLEAN] /\ \A q \in Proc : fails[q] => fails'[q]
      BY <1>1 DEF IInv, TypeOK
  <2> QED BY <1>1, <2>1, <2>2, MoveIInv DEF IInv, TypeOK
<1>2. rip \in Proc \cup {NoProc} /\ fails \in [Proc -> BOOLEAN]
    BY DEF IInv, TypeOK
<1>3. CASE WriteError(p)
    BY <1>1, <1>2, <1>3 DEF WriteError
<1>4. CASE Gate(p)
    BY <1>1, <1>2, <1>4 DEF Gate
<1>5. CASE Sleep(p)
    BY <1>1, <1>2, <1>5 DEF Sleep
<1>6. CASE SleepInterrupted(p)
    BY <1>1, <1>2, <1>6 DEF SleepInterrupted
<1>7. CASE Woken(p)
    BY <1>1, <1>2, <1>7 DEF Woken
<1>8. CASE ReadOwnDone(p)
    BY <1>8, MntgateIInv DEF ReadOwnDone
<1>9. CASE ReadInterrupted(p)
    BY <1>9, MntgateIInv DEF ReadInterrupted
<1>10. CASE ReadError(p)
    BY <1>10, MntgateIInv DEF ReadError
<1>11. CASE MuxWakeup(p)
  <2>1. /\ pc[p] = "wake" /\ UNCHANGED <<rpcs, queue, rip, cur, fails, server>>
        /\ mux' = [mux EXCEPT ![p] = NoTag]
      BY <1>11 DEF MuxWakeup
  <2>2. /\ pc' \in [Proc -> PcSet]
        /\ \A q \in Proc :
              \/ q = p /\ pc'[q] = "read"
              \/ pc'[q] = pc[q]
              \/ pc[q] = "asleep" /\ pc'[q] = "woken"
      BY <1>11 DEF MuxWakeup, SleepsOn, IInv, TypeOK, PcSet
  <2> QED BY <1>2, <2>1, <2>2, MoveIInv DEF IInv, TypeOK
<1> QED BY <1>3, <1>4, <1>5, <1>6, <1>7, <1>8, <1>9, <1>10, <1>11

-----------------------------------------------------------------------------
(* A new request, or the Tflush of the one that p works on.  The tag was   *)
(* free, so while the connection lasts nothing is under way for it; after  *)
(* that a reply to an earlier use of it may be, but p will not write.      *)
LEMMA BeginIInv ==
    ASSUME IInv, NEW p \in Proc, NEW t \in rpcfree, Begin(p, t),
           UNCHANGED <<rip, mux, fails, server>>,
           \/ pc[p] = "idle" /\ UNCHANGED <<flushed, oldtag, depth>>
           \/ /\ pc[p] = "flush"
              /\ flushed' = [flushed EXCEPT ![t] = cur[p]]
              /\ oldtag' = [oldtag EXCEPT ![t] =
                              IF flushed[cur[p]] = NoTag THEN cur[p] ELSE oldtag[cur[p]]]
              /\ depth' = [depth EXCEPT ![t] = depth[cur[p]] + 1]
    PROVE  IInv'
<1>1. /\ rpcfree' = rpcfree \ {t} /\ queue' = queue \cup {t}
      /\ done' = [done EXCEPT ![t] = FALSE] /\ reply' = [reply EXCEPT ![t] = "Tmax"]
      /\ asked' = [asked EXCEPT ![t] = p]
      /\ cur' = [cur EXCEPT ![p] = t] /\ pc' = [pc EXCEPT ![p] = "write"]
    BY DEF Begin, Goto
<1>2. /\ rip' = rip /\ mux' = mux /\ fails' = fails
      /\ work' = work /\ replies' = replies /\ broken' = broken
    BY DEF server
<1>3. t \in Tag /\ t \notin Used /\ Used' = Used \cup {t}
    BY <1>1 DEF IInv, TypeOK, Used
<1>4. \/ pc[p] = "idle" /\ flushed'[t] = NoTag /\ oldtag'[t] = NoTag /\ depth'[t] = 0
      \/ /\ pc[p] = "flush" /\ flushed'[t] \in Used /\ asked[flushed'[t]] = p
         /\ flushed'[t] = cur[p] /\ depth'[t] = depth[cur[p]] + 1
         /\ oldtag'[t] \in Used /\ asked[oldtag'[t]] = p /\ depth[oldtag'[t]] = 0
  <2>1. CASE pc[p] = "idle"
      BY <1>3, <2>1 DEF IInv, Frame, OwnerInv
  <2>2. CASE pc[p] = "flush"
    <3>1. cur[p] \in Used /\ asked[cur[p]] = p
        BY <2>2, CurTag
    <3>2. /\ flushed'[t] = cur[p] /\ depth'[t] = depth[cur[p]] + 1
          /\ oldtag'[t] = IF flushed[cur[p]] = NoTag THEN cur[p] ELSE oldtag[cur[p]]
        BY <1>3, <2>2 DEF IInv, TypeOK
    <3>3. /\ flushed[cur[p]] = NoTag => depth[cur[p]] = 0
          /\ flushed[cur[p]] /= NoTag =>
                oldtag[cur[p]] \in Used /\ asked[oldtag[cur[p]]] = p /\ depth[oldtag[cur[p]]] = 0
        BY <3>1 DEF IInv, Frame, ChainInv
    <3> QED BY <2>2, <3>1, <3>2, <3>3
  <2> QED BY <2>1, <2>2
<1>5. depth'[t] \in Nat /\ flushed'[t] \in Tag \cup {NoTag} /\ oldtag'[t] \in Tag \cup {NoTag}
    BY <1>4 DEF IInv, TypeOK, Used
<1>6. /\ flushed' \in [Tag -> Tag \cup {NoTag}] /\ oldtag' \in [Tag -> Tag \cup {NoTag}]
      /\ depth' \in [Tag -> Nat]
      /\ \A u \in Tag : u /= t => flushed'[u] = flushed[u] /\ oldtag'[u] = oldtag[u]
                                    /\ depth'[u] = depth[u]
    BY <1>3, <1>5 DEF IInv, TypeOK
<1>7. TypeOK'
  <2>1. /\ rpcfree' \in SUBSET Tag /\ queue' \in SUBSET Tag
        /\ done' \in [Tag -> BOOLEAN] /\ asked' \in [Tag -> Proc \cup {NoProc}]
        /\ reply' \in [Tag -> {"Tmax", "Rflush", "own", "other"}]
      BY <1>1, <1>3 DEF IInv, TypeOK
  <2>2. /\ pc' \in [Proc -> PcSet] /\ cur' \in [Proc -> Tag \cup {NoTag}]
        /\ \A q \in Proc : cur'[q] = NoTag <=> pc'[q] = "idle"
      BY <1>1, <1>3, MntAssumption DEF IInv, TypeOK, PcSet
  <2> QED BY <1>2, <1>6, <2>1, <2>2 DEF IInv, TypeOK
<1>8. \A u \in Used : /\ u \in Tag /\ u /= t /\ asked'[u] = asked[u] /\ depth'[u] = depth[u]
                      /\ flushed'[u] = flushed[u] /\ oldtag'[u] = oldtag[u]
                      /\ done'[u] = done[u] /\ reply'[u] = reply[u]
  <2>1. \A u \in Used : u \in Tag /\ u /= t
      BY <1>3 DEF Used
  <2>2. \A u \in Tag : u /= t => /\ asked'[u] = asked[u] /\ done'[u] = done[u]
                                 /\ reply'[u] = reply[u]
      BY <1>1 DEF IInv, TypeOK
  <2> QED BY <1>6, <2>1, <2>2
<1>9. asked'[t] = p /\ ~done'[t] /\ cur'[p] = t /\ pc'[p] = "write"
      /\ \A q \in Proc : q /= p => cur'[q] = cur[q] /\ pc'[q] = pc[q]
    BY <1>1, <1>3 DEF IInv, TypeOK
<1>10. ASSUME NEW u \in Used, asked[u] = p
       PROVE  pc[p] = "flush" /\ depth[u] < depth'[t] /\ u /= cur'[p]
  <2>1. pc[p] /= "idle" /\ depth[u] <= depth[cur[p]]
      BY <1>10 DEF IInv, Frame, OwnerInv
  <2>2. cur[p] \in Tag /\ u \in Tag
      BY <2>1, CurTag DEF Used
  <2> QED BY <1>3, <1>4, <1>9, <2>1, <2>2 DEF IInv, TypeOK
<1>11. OwnerInv'
  <2>1. ASSUME NEW u \in Used
        PROVE  asked'[u] \in Proc /\ pc'[asked'[u]] /= "idle" /\ depth'[u] <= depth'[cur'[asked'[u]]]
    <3>1. asked[u] \in Proc /\ pc[asked[u]] /= "idle" /\ depth[u] <= depth[cur[asked[u]]]
        BY DEF IInv, Frame, OwnerInv
    <3>2. CASE asked[u] = p
      <4>1. depth[u] < depth'[t]
          BY <1>10, <3>2
      <4> QED BY <1>5, <1>8, <1>9, <3>2, <4>1 DEF IInv, TypeOK
    <3>3. CASE asked[u] /= p
      <4>1. cur[asked[u]] \in Used
          BY <3>1, CurTag
      <4> QED BY <1>8, <1>9, <3>1, <3>3, <4>1
    <3> QED BY <3>2, <3>3
  <2>2. asked'[t] \in Proc /\ pc'[asked'[t]] /= "idle" /\ depth'[t] <= depth'[cur'[asked'[t]]]
      BY <1>5, <1>9
  <2>3. \A u \in rpcfree' : flushed'[u] = NoTag /\ oldtag'[u] = NoTag /\ depth'[u] = 0
      BY <1>1, <1>6 DEF IInv, TypeOK, Frame, OwnerInv
  <2> QED BY <1>3, <2>1, <2>2, <2>3 DEF OwnerInv
<1>12. UniqueInv'
  <2>1. \A u \in Used : asked'[u] = p => depth'[u] /= depth'[t]
    <3> SUFFICES ASSUME NEW u \in Used, asked'[u] = p PROVE depth'[u] /= depth'[t]
        OBVIOUS
    <3>1. depth[u] < depth'[t]
        BY <1>8, <1>10
    <3> QED BY <1>5, <1>8, <3>1 DEF IInv, TypeOK
  <2>2. \A u, v \in Used : asked'[u] = asked'[v] /\ depth'[u] = depth'[v] => u = v
      BY <1>8 DEF IInv, Frame, UniqueInv
  <2> QED BY <1>3, <1>9, <2>1, <2>2 DEF UniqueInv
<1>13. ChainInv'
  <2> SUFFICES ASSUME NEW u \in Used'
               PROVE  /\ flushed'[u] = NoTag => depth'[u] = 0 /\ oldtag'[u] = NoTag
                      /\ flushed'[u] /= NoTag =>
                            /\ flushed'[u] \in Used' /\ asked'[flushed'[u]] = asked'[u]
                            /\ depth'[u] = depth'[flushed'[u]] + 1
                            /\ oldtag'[u] \in Used' /\ asked'[oldtag'[u]] = asked'[u]
                            /\ depth'[oldtag'[u]] = 0
      BY DEF ChainInv
  <2>1. CASE u \in Used
    <3>1. /\ flushed[u] = NoTag => depth[u] = 0 /\ oldtag[u] = NoTag
          /\ flushed[u] /= NoTag =>
              /\ flushed[u] \in Used /\ asked[flushed[u]] = asked[u]
              /\ depth[u] = depth[flushed[u]] + 1
              /\ oldtag[u] \in Used /\ asked[oldtag[u]] = asked[u]
              /\ depth[oldtag[u]] = 0
        BY <2>1 DEF IInv, Frame, ChainInv
    <3> QED BY <1>3, <1>8, <2>1, <3>1
  <2>2. CASE u = t
    <3>1. flushed'[t] = NoTag => depth'[t] = 0 /\ oldtag'[t] = NoTag
        BY <1>4, MntAssumption DEF Used
    <3>2. flushed'[t] /= NoTag => /\ flushed'[t] \in Used /\ asked[flushed'[t]] = p
                                  /\ depth'[t] = depth[flushed'[t]] + 1
                                  /\ oldtag'[t] \in Used /\ asked[oldtag'[t]] = p
                                  /\ depth[oldtag'[t]] = 0
        BY <1>4
    <3> QED BY <1>3, <1>8, <1>9, <2>2, <3>1, <3>2
  <2> QED BY <1>3, <2>1, <2>2
<1>14. CurInv'
  <2> SUFFICES ASSUME NEW q \in Proc
               PROVE  /\ pc'[q] /= "idle" => cur'[q] \in Used' /\ asked'[cur'[q]] = q
                      /\ pc'[q] = "end" => depth'[cur'[q]] = 0 /\ done'[cur'[q]]
      BY DEF CurInv
  <2>1. CASE q = p
      BY <1>3, <1>9, <2>1
  <2>2. CASE q /= p /\ pc[q] /= "idle"
    <3>1. cur[q] \in Used /\ asked[cur[q]] = q
        BY <2>2, CurTag
    <3> QED BY <1>3, <1>8, <1>9, <2>2, <3>1 DEF IInv, Frame, CurInv
  <2>3. CASE q /= p /\ pc[q] = "idle"
      BY <1>9, <2>3
  <2> QED BY <2>1, <2>2, <2>3
<1>15. Exempt(t)' /\ \A u \in Used : Exempt(u) => Exempt(u)'
  <2>1. Exempt(t)'
      BY <1>9 DEF Exempt
  <2>2. ASSUME NEW u \in Used, Exempt(u) PROVE Exempt(u)'
    <3>1. asked[u] \in Proc /\ asked'[u] = asked[u]
        BY <1>8 DEF IInv, Frame, OwnerInv
    <3>2. asked[u] = p => pc[p] = "flush"
        BY <1>10
    <3> QED BY <1>2, <1>9, <2>2, <3>1, <3>2 DEF Exempt
  <2> QED BY <2>1, <2>2
<1>16. RpcInv'
    BY <1>3, <1>8, <1>15 DEF IInv, RpcInv
<1>17. ServerInv'
  <2>1. \A m \in work : m.tag \in Used' /\ m = Request(m.tag)'
      BY <1>3, <1>8 DEF IInv, ServerInv, Request
  <2>2. \A i \in 1 .. Len(replies) : replies[i].tag \in Used' =>
            replies[i].for = asked'[replies[i].tag] \/ Exempt(replies[i].tag)'
    <3> SUFFICES ASSUME NEW i \in 1 .. Len(replies), NEW u \in Used', replies[i].tag = u
                 PROVE  replies[i].for = asked'[u] \/ Exempt(u)'
        BY <1>2
    <3>1. CASE u \in Used
      <4>1. replies[i].for = asked[u] \/ Exempt(u)
          BY <3>1 DEF IInv, ServerInv
      <4> QED BY <1>8, <1>15, <3>1, <4>1
    <3> QED BY <1>3, <1>15, <3>1
  <2> QED BY <1>2, <2>1, <2>2 DEF IInv, ServerInv
<1>18. ASSUME ~broken PROVE Connected'
  <2>1. \A u : (Asked(u)' <=> Asked(u)) /\ (Answered(u)' <=> Answered(u))
      BY <1>2 DEF Asked, Answered
  <2>2. ~UnderWay(t)
      BY <1>3, <1>18, UnderWayUsed
  <2>3. \A u, v \in Used : UpTo(u, v)' <=> UpTo(u, v)
      BY <1>8 DEF UpTo
  <2>4. LiveInv'
      BY <1>2, <1>3, <1>8, <1>18 DEF IInv, Connected, LiveInv
  <2>5. WorkOrder' /\ DoneInv'
      BY <1>3, <1>8, <1>9, <1>18, <2>1, <2>2, <2>3 DEF IInv, Connected, WorkOrder, DoneInv, UnderWay
  <2>6. ReplyOrder'
      BY <1>2, <1>18, <2>3 DEF IInv, Connected, LiveInv, ReplyOrder
  <2>7. WriteInv'
    <3>1. \A q \in Proc : q /= p /\ pc[q] = "write" => cur[q] \in Used
        BY CurTag
    <3> QED BY <1>8, <1>9, <1>18, <2>1, <2>2, <3>1 DEF IInv, Connected, WriteInv, UnderWay
  <2>8. FreeInv'
    <3>1. \A u \in Used : asked[u] \in Proc
        BY DEF IInv, Frame, OwnerInv
    <3> QED BY <1>3, <1>8, <1>9, <1>18, <2>1, <3>1 DEF IInv, Connected, FreeInv, UnderWay
  <2> QED BY <2>4, <2>5, <2>6, <2>7, <2>8 DEF Connected
<1> QED BY <1>2, <1>7, <1>11, <1>12, <1>13, <1>14, <1>16, <1>17, <1>18 DEF IInv, Frame

-----------------------------------------------------------------------------
LEMMA WriteIInv ==
    ASSUME IInv, NEW p \in Proc, Write(p)
    PROVE  IInv'
<1> DEFINE t == cur[p]
<1>1. t \in Used /\ t \in Tag /\ asked[t] = p /\ pc[p] = "write"
    BY CurTag DEF Write
<1>2. /\ rpcfree' = rpcfree /\ done' = done /\ reply' = reply /\ flushed' = flushed
      /\ oldtag' = oldtag /\ depth' = depth
      /\ asked' = asked /\ queue' = queue /\ rip' = rip /\ cur' = cur /\ mux' = mux
      /\ fails' = fails /\ replies' = replies /\ broken' = broken /\ ~broken
    BY DEF Write, rpcs, links
<1>3. /\ pc' \in [Proc -> PcSet] /\ pc'[p] \in {"gate", "flush"}
      /\ \A q \in Proc : q /= p => pc'[q] = pc[q]
    BY DEF Write, Goto, IInv, TypeOK, PcSet
<1>4. work' = work \cup {Request(t)} /\ Request(t).tag = t
    BY <1>1 DEF Write, Request
<1> HIDE DEF t
<1>5. TypeOK'
    BY <1>1, <1>2, <1>3 DEF IInv, TypeOK
<1>6. Frame'
  <2>1. UniqueInv' /\ ChainInv'
      BY <1>2 DEF IInv, Frame, UniqueInv, ChainInv, Used
  <2>2. OwnerInv' /\ CurInv'
      BY <1>1, <1>2, <1>3 DEF IInv, Frame, OwnerInv, CurInv, Used
  <2> QED BY <2>1, <2>2 DEF Frame
<1>7. ~UnderWay(t) /\ ~done[t]
    BY <1>1, <1>2 DEF IInv, Connected, WriteInv, t
<1>8. \A u \in Used : u /= t /\ Exempt(u) => Exempt(u)'
    BY <1>1, <1>2, <1>3 DEF IInv, Frame, OwnerInv, Exempt, t
<1>9. RpcInv'
    BY <1>2, <1>7, <1>8 DEF IInv, RpcInv, Used
<1>10. LiveInv'
    BY <1>2 DEF IInv, Connected, LiveInv, Used
<1>11. ServerInv'
  <2>1. \A u : Request(u)' = Request(u)
      BY <1>2 DEF Request
  <2>2. \A m \in work' : m.tag \in Used' /\ m = Request(m.tag)'
      BY <1>1, <1>2, <1>4, <2>1 DEF IInv, ServerInv, Used
  <2> QED BY <1>2, <1>10, <2>2 DEF IInv, ServerInv, LiveInv
<1>12. \A u : (Asked(u)' <=> Asked(u) \/ u = t) /\ (Answered(u)' <=> Answered(u))
  <2>1. \A u : Asked(u)' <=> Asked(u) \/ u = t
      BY <1>4 DEF Asked
  <2>2. \A u : Answered(u)' <=> Answered(u)
      BY <1>2 DEF Answered
  <2> QED BY <2>1, <2>2
<1>13. \A u, v : UpTo(u, v)' <=> UpTo(u, v)
    BY <1>2 DEF UpTo
<1>14. \A u \in Used : UpTo(t, u) => u = t
    BY <1>1, LastTag DEF t
<1>15. ReplyOrder'
    BY <1>2, <1>13 DEF IInv, Connected, ReplyOrder
<1>16. WriteInv'
  <2>1. \A q \in Proc : q /= p /\ pc[q] = "write" => cur[q] /= t
      BY <1>1, CurTag
  <2> QED BY <1>2, <1>3, <1>12, <2>1 DEF IInv, Connected, WriteInv, UnderWay
<1>17. WorkOrder' /\ DoneInv'
    BY <1>2, <1>7, <1>12, <1>13, <1>14 DEF IInv, Connected, WorkOrder, DoneInv, UnderWay, Used
<1>18. FreeInv'
    BY <1>1, <1>2, <1>3, <1>12 DEF IInv, Frame, OwnerInv, Connected, FreeInv, UnderWay, Used
<1> QED BY <1>5, <1>6, <1>9, <1>10, <1>11, <1>15, <1>16, <1>17, <1>18 DEF IInv, Connected

-----------------------------------------------------------------------------
(* The first reply is that of the earliest of its process.                 *)
LEMMA FirstReply ==
    ASSUME IInv, replies /= <<>>
    PROVE  /\ Len(replies) \in Nat /\ 1 \in 1 .. Len(replies) /\ Head(replies) = replies[1]
           /\ Tail(replies) \in Seq(Reply)
           /\ Len(Tail(replies)) = Len(replies) - 1
           /\ \A i \in 1 .. Len(replies) - 1 :
                 Tail(replies)[i] = replies[i + 1] /\ i + 1 \in 1 .. Len(replies)
           /\ ReplyOrder => \A i \in 1 .. Len(replies) - 1 :
                 ~UpTo(Tail(replies)[i].tag, Head(replies).tag)
<1>1. replies \in Seq(Reply) /\ Len(replies) \in Nat /\ Len(replies) >= 1
    BY EmptySeq, LenProperties DEF IInv, ServerInv
<1>2. Head(replies) = replies[1] /\ 1 \in 1 .. Len(replies)
    BY <1>1
<1>3. /\ Tail(replies) \in Seq(Reply)
      /\ Len(Tail(replies)) = Len(replies) - 1
      /\ \A i \in 1 .. Len(replies) - 1 : Tail(replies)[i] = replies[i + 1]
    BY <1>1, HeadTailProperties
<1>4. \A i \in 1 .. Len(replies) - 1 : i + 1 \in 1 .. Len(replies) /\ 1 < i + 1
    BY <1>1
<1>5. ReplyOrder => \A i \in 1 .. Len(replies) - 1 : ~UpTo(replies[i + 1].tag, replies[1].tag)
    BY <1>2, <1>4 DEF ReplyOrder
<1> QED BY <1>1, <1>2, <1>3, <1>4, <1>5

(* mountmux: with the reply to a tag, nothing more is under way for it and *)
(* those before it.  What the reader finds in its own Mntrpc is not its    *)
(* reply unless it is marked done.                                         *)
LEMMA MountmuxIInv ==
    ASSUME IInv, NEW p \in Proc, Mountmux(p)
    PROVE  IInv'
<1> DEFINE m == Head(replies)
           h == m.tag
<1>1. /\ Len(replies) \in Nat /\ 1 \in 1 .. Len(replies) /\ m = replies[1]
      /\ Tail(replies) \in Seq(Reply)
      /\ Len(Tail(replies)) = Len(replies) - 1
      /\ \A i \in 1 .. Len(replies) - 1 :
            Tail(replies)[i] = replies[i + 1] /\ i + 1 \in 1 .. Len(replies)
      /\ ReplyOrder => \A i \in 1 .. Len(replies) - 1 : ~UpTo(Tail(replies)[i].tag, h)
    BY FirstReply DEF Mountmux
<1>2. h \in Tag
    BY <1>1, RepliesOfTags
<1>3. /\ pc[p] = "read" /\ ~done[cur[p]] /\ replies' = Tail(replies)
      /\ rpcfree' = rpcfree /\ flushed' = flushed /\ oldtag' = oldtag /\ depth' = depth
      /\ asked' = asked /\ rip' = rip
      /\ cur' = cur /\ fails' = fails /\ work' = work /\ broken' = broken
    BY DEF Mountmux, links
<1>4. /\ pc' \in [Proc -> PcSet] /\ pc'[p] \in {"read", "wake"}
      /\ \A q \in Proc : q /= p => pc'[q] = pc[q]
  <2>1. pc' = pc \/ pc' = [pc EXCEPT ![p] = "wake"]
      BY DEF Mountmux, Goto
  <2> QED BY <1>3, <2>1 DEF IInv, TypeOK, PcSet
<1>5. cur[p] \in Tag /\ cur[p] \in Used
    BY <1>3, CurTag
<1>6. \/ /\ queue' = queue /\ done' = done
         /\ reply' = [reply EXCEPT ![cur[p]] = Says(m, cur[p])]
      \/ /\ queue' = queue \ {h} /\ done' = [done EXCEPT ![h] = TRUE]
         /\ reply' = [reply EXCEPT ![cur[p]] = Says(m, cur[p]), ![h] = Says(m, h)]
    BY DEF Mountmux, Addressee
<1>7. mux' \in [Proc -> Tag \cup {NoTag}]
  <2>1. mux' = mux \/ mux' = [mux EXCEPT ![p] = h]
      BY DEF Mountmux, Addressee
  <2> QED BY <1>2, <2>1 DEF IInv, TypeOK
<1>8. \A t : Says(m, t) \in {"own", "other"}
    BY DEF Says
<1>9. Says(m, h) = "own" <=> m.for = asked[h]
    BY DEF Says
<1> HIDE DEF m, h
<1>10. /\ queue' \in SUBSET Tag /\ done' \in [Tag -> BOOLEAN]
       /\ reply' \in [Tag -> {"Tmax", "Rflush", "own", "other"}]
       /\ \A u \in Tag : done[u] => done'[u]
       /\ \A u \in Tag : done'[u] =>
             \/ u = h /\ reply'[u] = Says(m, h)
             \/ done[u] /\ reply'[u] = reply[u]
  <2>1. queue \in SUBSET Tag /\ done \in [Tag -> BOOLEAN]
        /\ reply \in [Tag -> {"Tmax", "Rflush", "own", "other"}]
      BY DEF IInv, TypeOK
  <2>2. CASE /\ queue' = queue /\ done' = done
             /\ reply' = [reply EXCEPT ![cur[p]] = Says(m, cur[p])]
      BY <1>3, <1>5, <1>8, <2>1, <2>2
  <2>3. CASE /\ queue' = queue \ {h} /\ done' = [done EXCEPT ![h] = TRUE]
             /\ reply' = [reply EXCEPT ![cur[p]] = Says(m, cur[p]), ![h] = Says(m, h)]
    <3>1. reply' \in [Tag -> {"Tmax", "Rflush", "own", "other"}]
        BY <1>2, <1>5, <1>8, <2>1, <2>3
    <3>2. reply'[h] = Says(m, h)
        BY <1>2, <1>5, <2>1, <2>3
    <3>3. \A u \in Tag : u /= h /\ u /= cur[p] => reply'[u] = reply[u]
        BY <1>2, <1>5, <2>1, <2>3
    <3>4. \A u \in Tag : done[u] \/ u = h <=> done'[u]
        BY <1>2, <2>1, <2>3
    <3> QED BY <1>3, <1>5, <2>1, <2>3, <3>1, <3>2, <3>3, <3>4
  <2> QED BY <1>6, <2>2, <2>3
<1>11. TypeOK'
  <2>1. \A q \in Proc : cur'[q] = NoTag <=> pc'[q] = "idle"
      BY <1>3, <1>4 DEF IInv, TypeOK
  <2> QED BY <1>3, <1>4, <1>7, <1>10, <2>1 DEF IInv, TypeOK
<1>12. Frame'
  <2>1. UniqueInv' /\ ChainInv'
      BY <1>3 DEF IInv, Frame, UniqueInv, ChainInv, Used
  <2>2. OwnerInv'
      BY <1>3, <1>4 DEF IInv, Frame, OwnerInv, Used
  <2>3. \A q \in Proc : pc'[q] /= "idle" => pc[q] /= "idle"
      BY <1>3, <1>4
  <2>4. \A q \in Proc : pc'[q] = "end" => pc[q] = "end" /\ cur[q] \in Tag
      BY <1>4, CurTag
  <2>5. CurInv'
      BY <1>3, <1>10, <2>3, <2>4 DEF IInv, Frame, CurInv, Used
  <2> QED BY <2>1, <2>2, <2>5 DEF Frame
<1>13. \A u \in Used : asked[u] \in Proc /\ (Exempt(u) => Exempt(u)')
    BY <1>3, <1>4 DEF IInv, Frame, OwnerInv, Exempt
<1>14. h \in Used => m.for = asked[h] \/ Exempt(h)
    BY <1>1 DEF IInv, ServerInv, h
<1>15. RpcInv'
  <2> SUFFICES ASSUME NEW u \in Used, done'[u] PROVE reply'[u] \in {"own", "Rflush"} \/ Exempt(u)'
      BY <1>3 DEF RpcInv, Used
  <2>1. CASE u = h /\ reply'[u] = Says(m, h)
      BY <1>9, <1>13, <1>14, <2>1
  <2>2. CASE done[u] /\ reply'[u] = reply[u]
      BY <1>13, <2>2 DEF IInv, RpcInv
  <2> QED BY <1>10, <2>1, <2>2 DEF Used
<1>16. ServerInv'
  <2>1. \A k \in work' : k.tag \in Used' /\ k = Request(k.tag)'
      BY <1>3 DEF IInv, ServerInv, Request, Used
  <2>2. ASSUME NEW i \in 1 .. Len(replies'), NEW u \in Used, replies'[i].tag = u
        PROVE  replies'[i].for = asked[u] \/ Exempt(u)'
    <3>1. replies'[i] = replies[i + 1] /\ i + 1 \in 1 .. Len(replies)
        BY <1>1, <1>3
    <3>2. replies[i + 1].for = asked[u] \/ Exempt(u)
        BY <2>2, <3>1 DEF IInv, ServerInv
    <3> QED BY <1>13, <2>2, <3>1, <3>2
  <2>3. Used' = Used /\ asked' = asked
      BY <1>3 DEF Used
  <2>4. \A i \in 1 .. Len(replies') : replies'[i].tag \in Used' =>
           replies'[i].for = asked'[replies'[i].tag] \/ Exempt(replies[i].tag)'
      BY <2>2, <2>3
  <2> QED BY <1>1, <1>3, <2>1, <2>4 DEF IInv, ServerInv
<1>17. ASSUME ~broken PROVE Connected'
  <2>1. Connected
      BY <1>17 DEF IInv
  <2>2. \A u : Asked(u)' <=> Asked(u)
      BY <1>3 DEF Asked
  <2>3. \A u : Answered(u)' => Answered(u)
      BY <1>1, <1>3 DEF Answered
  <2>4. Answered(h) /\ h \in Used
      BY <1>1, <2>1 DEF Answered, h, Connected, LiveInv
  <2>5. \A u, v : UpTo(u, v)' <=> UpTo(u, v)
      BY <1>3 DEF UpTo
  <2>6. \A u \in Used : UpTo(u, h) => ~UnderWay(u)'
    <3>1. \A u \in Used : UpTo(u, h) => ~Asked(u)
        BY <2>1, <2>4 DEF Connected, WorkOrder
    <3>2. \A u \in Used : UpTo(u, h) => ~Answered(u)'
        BY <1>1, <1>3, <2>1 DEF Connected, Answered
    <3> QED BY <2>2, <3>1, <3>2 DEF UnderWay
  <2>7. LiveInv'
      BY <1>1, <1>3, <2>1 DEF Connected, LiveInv, Used
  <2>8. WorkOrder'
      BY <1>3, <2>1, <2>2, <2>3, <2>5 DEF Connected, WorkOrder, Used
  <2>9. WriteInv'
    <3>1. \A q \in Proc : pc'[q] = "write" => pc[q] = "write" /\ cur[q] \in Tag
        BY <1>4, CurTag
    <3>2. \A q \in Proc : pc[q] = "write" => cur[q] /= h
        BY <2>1, <2>4 DEF Connected, WriteInv, UnderWay
    <3> QED BY <1>3, <1>10, <2>1, <2>2, <2>3, <3>1, <3>2 DEF Connected, WriteInv, UnderWay
  <2>10. ReplyOrder'
    <3> SUFFICES ASSUME NEW i \in 1 .. Len(replies) - 1, NEW j \in 1 .. Len(replies) - 1, i < j
                 PROVE  ~UpTo(replies[j + 1].tag, replies[i + 1].tag)
        BY <1>1, <1>3, <2>5 DEF ReplyOrder
    <3>1. i + 1 \in 1 .. Len(replies) /\ j + 1 \in 1 .. Len(replies) /\ i + 1 < j + 1
        BY <1>1
    <3> QED BY <2>1, <3>1 DEF Connected, ReplyOrder
  <2>11. DoneInv'
    <3> SUFFICES ASSUME NEW t \in Used, NEW u \in Used, done'[t], UpTo(u, t) PROVE ~UnderWay(u)'
        BY <1>3, <2>5 DEF DoneInv, Used
    <3>1. CASE t = h
        BY <2>6, <3>1
    <3>2. CASE done[t]
        BY <2>1, <2>2, <2>3, <3>2 DEF Connected, DoneInv, UnderWay
    <3> QED BY <1>10, <3>1, <3>2 DEF Used
  <2>12. FreeInv'
      BY <1>3, <1>4, <1>13, <2>1, <2>2, <2>3 DEF Connected, FreeInv, UnderWay, Used
  <2> QED BY <2>7, <2>8, <2>9, <2>10, <2>11, <2>12 DEF Connected
<1> QED BY <1>3, <1>11, <1>12, <1>15, <1>16, <1>17 DEF IInv

-----------------------------------------------------------------------------
(* mntflushfree and mntfree: nothing is under way for a process that frees *)
(* its chain, from the last Tflush to the request.                         *)
LEMMA FreeRequestIInv ==
    ASSUME IInv, NEW p \in Proc, Mntflushfree(p), flushed[cur[p]] = NoTag
    PROVE  IInv'
<1> DEFINE t == cur[p]
<1>1. t \in Used /\ t \in Tag /\ asked[t] = p /\ pc[p] = "free"
    BY CurTag DEF Mntflushfree
<1>2. /\ queue' = queue \ {t} /\ done' = [done EXCEPT ![t] = TRUE]
      /\ reply' = [reply EXCEPT ![t] = FinalReply(t)]
      /\ rpcfree' = rpcfree /\ asked' = asked /\ flushed' = flushed
      /\ oldtag' = oldtag /\ depth' = depth /\ cur' = cur
      /\ pc' = [pc EXCEPT ![p] = "end"] /\ rip' = rip /\ mux' = mux /\ fails' = fails
      /\ work' = work /\ replies' = replies /\ broken' = broken
    BY DEF Mntflushfree, Goto, links
<1>3. depth[t] = 0
    BY <1>1 DEF IInv, Frame, ChainInv
<1>4. FinalReply(t) = IF done[t] THEN reply[t] ELSE "Rflush"
    BY DEF FinalReply
<1> HIDE DEF t
<1>5. /\ pc' \in [Proc -> PcSet] /\ pc'[p] = "end"
      /\ \A q \in Proc : q /= p => pc'[q] = pc[q]
    BY <1>2 DEF IInv, TypeOK, PcSet
<1>6. /\ done' \in [Tag -> BOOLEAN] /\ done'[t]
      /\ reply' \in [Tag -> {"Tmax", "Rflush", "own", "other"}]
      /\ reply'[t] = FinalReply(t)
      /\ \A u \in Tag : u /= t => done'[u] = done[u] /\ reply'[u] = reply[u]
  <2>1. FinalReply(t) \in {"Tmax", "Rflush", "own", "other"}
      BY <1>1, <1>4 DEF IInv, TypeOK
  <2> QED BY <1>1, <1>2, <2>1 DEF IInv, TypeOK
<1>7. TypeOK'
  <2>1. \A q \in Proc : cur'[q] = NoTag <=> pc'[q] = "idle"
      BY <1>1, <1>2, <1>5 DEF IInv, TypeOK
  <2> QED BY <1>2, <1>5, <1>6, <2>1 DEF IInv, TypeOK
<1>8. Frame'
  <2>1. UniqueInv' /\ ChainInv'
      BY <1>2 DEF IInv, Frame, UniqueInv, ChainInv, Used
  <2>2. OwnerInv'
      BY <1>1, <1>2, <1>5 DEF IInv, Frame, OwnerInv, Used
  <2>3. \A q \in Proc : q /= p /\ pc[q] = "end" => cur[q] \in Tag /\ cur[q] /= t
      BY <1>1, CurTag
  <2>4. CurInv'
      BY <1>1, <1>2, <1>3, <1>5, <1>6, <2>3 DEF IInv, Frame, CurInv, Used, t
  <2> QED BY <2>1, <2>2, <2>4 DEF Frame
<1>9. \A u \in Used : asked[u] \in Proc /\ (Exempt(u) => Exempt(u)')
    BY <1>1, <1>2, <1>5 DEF IInv, Frame, OwnerInv, Exempt
<1>10. RpcInv'
    BY <1>2, <1>4, <1>6, <1>9 DEF IInv, RpcInv, Used
<1>11. ServerInv'
  <2>1. \A u : Request(u)' = Request(u)
      BY <1>2 DEF Request
  <2> QED BY <1>2, <1>9, <2>1 DEF IInv, ServerInv, Used
<1>12. ASSUME ~broken PROVE Connected'
  <2>1. \A u : (Asked(u)' <=> Asked(u)) /\ (Answered(u)' <=> Answered(u))
      BY <1>2 DEF Asked, Answered
  <2>2. \A u \in Used : asked[u] = p => ~UnderWay(u)
      BY <1>1, <1>12 DEF IInv, Connected, FreeInv
  <2>3. LiveInv' /\ WorkOrder' /\ ReplyOrder'
      BY <1>2, <1>12, <2>1 DEF IInv, Connected, LiveInv, WorkOrder, ReplyOrder, UpTo, Used
  <2>4. DoneInv'
      BY <1>1, <1>2, <1>6, <1>12, <2>1, <2>2 DEF IInv, Connected, DoneInv, UnderWay, UpTo, Used
  <2>5. \A q \in Proc : pc'[q] = "write" => pc[q] = "write" /\ cur[q] \in Tag /\ cur[q] /= t
      BY <1>1, <1>5, CurTag
  <2>6. WriteInv'
      BY <1>2, <1>6, <1>12, <2>1, <2>5 DEF IInv, Connected, WriteInv, UnderWay
  <2>7. FreeInv'
      BY <1>1, <1>2, <1>5, <1>9, <1>12, <2>1, <2>2 DEF IInv, Connected, FreeInv, UnderWay, Used
  <2> QED BY <2>3, <2>4, <2>6, <2>7 DEF Connected
<1> QED BY <1>2, <1>7, <1>8, <1>10, <1>11, <1>12 DEF IInv

(* The last Mntrpc of the chain goes back to the free list; what is left   *)
(* is the rest of the chain, or nothing.                                   *)
LEMMA GiveBackIInv ==
    ASSUME IInv, NEW p \in Proc, pc[p] \in {"free", "end"}, Mntfree(cur[p]), TypeOK',
           UNCHANGED broken,
           \A u \in Tag : u /= cur[p] => reply'[u] = reply[u] /\ done'[u] = done[u],
           \/ /\ pc[p] = "free" /\ pc' = pc /\ fails' = fails
              /\ flushed[cur[p]] /= NoTag /\ cur' = [cur EXCEPT ![p] = flushed[cur[p]]]
           \/ /\ pc[p] = "end" /\ pc' = [pc EXCEPT ![p] = "idle"]
              /\ cur' = [cur EXCEPT ![p] = NoTag] /\ fails' = [fails EXCEPT ![p] = FALSE]
    PROVE  IInv'
<1>1. PICK t \in Tag : /\ t = cur[p] /\ asked[t] = p /\ t \in Used /\ depth[t] \in Nat
                       /\ pc[p] = "end" => depth[t] = 0
    BY CurTag DEF IInv, TypeOK, Frame, CurInv
<1>2. /\ rpcfree' = rpcfree \cup {t} /\ asked' = [asked EXCEPT ![t] = NoProc]
      /\ flushed' = [flushed EXCEPT ![t] = NoTag] /\ oldtag' = [oldtag EXCEPT ![t] = NoTag]
      /\ depth' = [depth EXCEPT ![t] = 0] /\ broken' = broken
      /\ work' = {Over(m, t) : m \in work}
      /\ replies' = [i \in DOMAIN replies |-> Over(replies[i], t)]
    BY <1>1 DEF Mntfree
<1>3. /\ \A q \in Proc : q /= p => pc'[q] = pc[q] /\ cur'[q] = cur[q] /\ fails'[q] = fails[q]
      /\ \/ /\ pc'[p] = "free" /\ flushed[t] /= NoTag /\ cur'[p] = flushed[t]
            /\ fails'[p] = fails[p]
         \/ pc'[p] = "idle" /\ depth[t] = 0
    BY <1>1 DEF IInv, TypeOK
<1>4. /\ Used' = Used \ {t}
      /\ flushed'[t] = NoTag /\ oldtag'[t] = NoTag /\ depth'[t] = 0
      /\ \A u \in Tag : u /= t => /\ asked'[u] = asked[u] /\ depth'[u] = depth[u]
                                  /\ flushed'[u] = flushed[u] /\ oldtag'[u] = oldtag[u]
                                  /\ reply'[u] = reply[u] /\ done'[u] = done[u]
  <2>1. Used' = Used \ {t}
      BY <1>2 DEF Used
  <2> QED BY <1>1, <1>2, <2>1 DEF IInv, TypeOK
<1>5. \A u \in Used' : /\ u \in Used /\ u \in Tag /\ u /= t
                       /\ asked'[u] = asked[u] /\ depth'[u] = depth[u]
                       /\ flushed'[u] = flushed[u] /\ oldtag'[u] = oldtag[u]
                       /\ reply'[u] = reply[u] /\ done'[u] = done[u]
                       /\ asked[u] \in Proc
    BY <1>4 DEF Used, IInv, Frame, OwnerInv
<1>6. \A u \in Used' : asked[u] = p => depth[u] < depth[t]
  <2> SUFFICES ASSUME NEW u \in Used', asked[u] = p PROVE depth[u] < depth[t]
      OBVIOUS
  <2>1. depth[u] <= depth[t]
      BY <1>1, <1>5 DEF IInv, Frame, OwnerInv
  <2>2. depth[u] /= depth[t]
      BY <1>1, <1>5 DEF IInv, Frame, UniqueInv
  <2>3. depth[u] \in Nat
      BY <1>5 DEF IInv, TypeOK
  <2> QED BY <1>1, <2>1, <2>2, <2>3
<1>7. pc'[p] = "free" =>
        /\ flushed[t] \in Used' /\ asked[flushed[t]] = p /\ depth[t] = depth[flushed[t]] + 1
        /\ depth[flushed[t]] \in Nat
  <2> SUFFICES ASSUME pc'[p] = "free"
               PROVE  /\ flushed[t] \in Used' /\ asked[flushed[t]] = p
                      /\ depth[t] = depth[flushed[t]] + 1 /\ depth[flushed[t]] \in Nat
      OBVIOUS
  <2>1. flushed[t] \in Used /\ asked[flushed[t]] = p /\ depth[t] = depth[flushed[t]] + 1
      BY <1>1, <1>3 DEF IInv, Frame, ChainInv
  <2>2. depth[flushed[t]] \in Nat
      BY <2>1 DEF IInv, TypeOK, Used
  <2>3. flushed[t] /= t
      BY <1>1, <2>1, <2>2
  <2> QED BY <1>4, <2>1, <2>2, <2>3
<1>8. \A u \in Used' : asked[u] = p => pc'[p] = "free" /\ depth[u] <= depth[flushed[t]]
  <2> SUFFICES ASSUME NEW u \in Used', asked[u] = p
               PROVE  pc'[p] = "free" /\ depth[u] <= depth[flushed[t]]
      OBVIOUS
  <2>1. depth[u] < depth[t] /\ depth[u] \in Nat
      BY <1>5, <1>6 DEF IInv, TypeOK
  <2> QED BY <1>1, <1>3, <1>7, <2>1
<1>9. OwnerInv'
  <2>1. ASSUME NEW u \in Used'
        PROVE  asked'[u] \in Proc /\ pc'[asked'[u]] /= "idle" /\ depth'[u] <= depth'[cur'[asked'[u]]]
    <3>1. CASE asked[u] = p
      <4>1. pc'[p] = "free" /\ cur'[p] = flushed[t] /\ depth[u] <= depth[flushed[t]]
          BY <1>3, <1>8, <3>1
      <4> QED BY <1>5, <1>7, <3>1, <4>1
    <3>2. CASE asked[u] /= p
      <4>1. pc[asked[u]] /= "idle" /\ depth[u] <= depth[cur[asked[u]]]
          BY <1>5 DEF IInv, Frame, OwnerInv
      <4>2. cur[asked[u]] \in Used /\ cur[asked[u]] /= t
          BY <1>1, <1>5, <3>2, <4>1, CurTag
      <4>3. depth'[cur[asked[u]]] = depth[cur[asked[u]]]
          BY <1>4, <4>2 DEF Used
      <4> QED BY <1>3, <1>5, <3>2, <4>1, <4>3
    <3> QED BY <3>1, <3>2
  <2>2. \A u \in rpcfree' : flushed'[u] = NoTag /\ oldtag'[u] = NoTag /\ depth'[u] = 0
      BY <1>2, <1>4 DEF IInv, TypeOK, Frame, OwnerInv
  <2> QED BY <2>1, <2>2 DEF OwnerInv
<1>10. UniqueInv'
    BY <1>5 DEF IInv, Frame, UniqueInv
<1>11. ChainInv'
  <2> SUFFICES ASSUME NEW u \in Used'
               PROVE  /\ flushed[u] = NoTag => depth[u] = 0 /\ oldtag[u] = NoTag
                      /\ flushed[u] /= NoTag =>
                            /\ flushed[u] \in Used' /\ asked'[flushed[u]] = asked[u]
                            /\ depth[u] = depth'[flushed[u]] + 1
                            /\ oldtag[u] \in Used' /\ asked'[oldtag[u]] = asked[u]
                            /\ depth'[oldtag[u]] = 0
      BY <1>5 DEF ChainInv
  <2>1. /\ flushed[u] = NoTag => depth[u] = 0 /\ oldtag[u] = NoTag
        /\ flushed[u] /= NoTag =>
              /\ flushed[u] \in Used /\ asked[flushed[u]] = asked[u]
              /\ depth[u] = depth[flushed[u]] + 1
              /\ oldtag[u] \in Used /\ asked[oldtag[u]] = asked[u]
              /\ depth[oldtag[u]] = 0
      BY <1>5 DEF IInv, Frame, ChainInv
  <2>2. asked[u] = p => depth[u] < depth[t] /\ depth[u] \in Nat
      BY <1>5, <1>6 DEF IInv, TypeOK
  <2>3. flushed[u] /= NoTag => flushed[u] /= t
      BY <1>1, <2>1, <2>2
  <2>4. flushed[u] /= NoTag => oldtag[u] /= t
    <3> SUFFICES ASSUME flushed[u] /= NoTag, oldtag[u] = t PROVE FALSE
        OBVIOUS
    <3>1. asked[u] = p /\ depth[t] = 0
        BY <1>1, <2>1
    <3> QED BY <2>2, <3>1
  <2> QED BY <1>4, <1>5, <2>1, <2>3, <2>4
<1>12. CurInv'
  <2> SUFFICES ASSUME NEW q \in Proc
               PROVE  /\ pc'[q] /= "idle" => cur'[q] \in Used' /\ asked'[cur'[q]] = q
                      /\ pc'[q] = "end" => depth'[cur'[q]] = 0 /\ done'[cur'[q]]
      BY DEF CurInv
  <2>1. CASE q = p
      BY <1>3, <1>5, <1>7, <2>1
  <2>2. CASE q /= p /\ pc[q] /= "idle"
    <3>1. cur[q] \in Used' /\ asked[cur[q]] = q
        BY <1>1, <1>4, <2>2, CurTag
    <3> QED BY <1>3, <1>5, <2>2, <3>1 DEF IInv, Frame, CurInv
  <2>3. CASE q /= p /\ pc[q] = "idle"
      BY <1>3, <2>3
  <2> QED BY <2>1, <2>2, <2>3
<1>13. \A u \in Used' : Exempt(u) => Exempt(u)'
    BY <1>3, <1>5, <1>8 DEF Exempt
<1>14. RpcInv'
    BY <1>5, <1>13 DEF IInv, RpcInv
<1>15. ~broken => \A u \in Used : asked[u] = p => ~UnderWay(u)
    BY DEF IInv, Connected, FreeInv
<1>16. work' = work /\ \A m \in work : m.tag \in Used'
  <2>1. \A m \in work : m.tag /= t
      BY <1>1, <1>15 DEF IInv, ServerInv, UnderWay, Asked
  <2>2. \A m \in work : Over(m, t) = m
      BY <2>1 DEF Over
  <2> QED BY <1>2, <1>4, <2>1, <2>2 DEF IInv, ServerInv
<1>17. /\ replies' \in Seq(Reply) /\ Len(replies') = Len(replies)
       /\ \A i \in 1 .. Len(replies) :
             /\ replies'[i].tag = replies[i].tag
             /\ replies[i].tag /= t => replies'[i] = replies[i]
  <2>1. replies \in Seq(Reply) /\ Len(replies) \in Nat /\ DOMAIN replies = 1 .. Len(replies)
      BY LenProperties DEF IInv, ServerInv
  <2>2. \A i \in 1 .. Len(replies) :
           /\ replies'[i] = Over(replies[i], t)
           /\ replies[i] \in Reply
      BY <1>2, <2>1, RepliesOfTags
  <2>3. \A r \in Reply : /\ Over(r, t) \in Reply /\ Over(r, t).tag = r.tag
                         /\ r.tag /= t => Over(r, t) = r
      BY DEF Over, Reply
  <2>4. replies' \in [1 .. Len(replies) -> Reply]
      BY <1>2, <2>1, <2>2, <2>3
  <2>5. replies' \in Seq(Reply) /\ Len(replies') = Len(replies)
      BY <2>1, <2>4, SeqDef
  <2> QED BY <2>2, <2>3, <2>5
<1>18. ServerInv'
  <2>1. \A m \in work' : m.tag \in Used' /\ m = Request(m.tag)'
      BY <1>5, <1>16 DEF IInv, ServerInv, Request
  <2>2. ASSUME NEW i \in 1 .. Len(replies'), NEW u \in Used', replies'[i].tag = u
        PROVE  replies'[i].for = asked'[u] \/ Exempt(u)'
    <3>1. replies'[i] = replies[i] /\ u \in Used /\ i \in 1 .. Len(replies)
        BY <1>5, <1>17, <2>2
    <3>2. replies[i].for = asked[u] \/ Exempt(u)
        BY <2>2, <3>1 DEF IInv, ServerInv
    <3> QED BY <1>5, <1>13, <3>1, <3>2
  <2>3. \A i \in 1 .. Len(replies') : replies'[i].tag \in Used' =>
           replies'[i].for = asked'[replies'[i].tag] \/ Exempt(replies[i].tag)'
      BY <2>2
  <2>4. broken' => work' = {}
      BY <1>2, <1>16 DEF IInv, ServerInv
  <2> QED BY <1>17, <2>1, <2>3, <2>4 DEF ServerInv
<1>19. ASSUME ~broken PROVE Connected'
  <2>1. \A u : (Asked(u)' <=> Asked(u)) /\ (Answered(u)' <=> Answered(u))
      BY <1>16, <1>17 DEF Asked, Answered
  <2>2. ~UnderWay(t)
      BY <1>1, <1>15, <1>19
  <2>3. \A u, v \in Used' : UpTo(u, v)' <=> UpTo(u, v)
      BY <1>5 DEF UpTo
  <2>4. LiveInv'
    <3> SUFFICES ASSUME NEW i \in 1 .. Len(replies)
                 PROVE  replies'[i].tag \in Used' /\ replies'[i].for = asked'[replies'[i].tag]
        BY <1>17 DEF LiveInv
    <3>1. replies[i].tag \in Used /\ replies[i].for = asked[replies[i].tag]
        BY <1>19 DEF IInv, Connected, LiveInv
    <3>2. replies[i].tag /= t
        BY <2>2 DEF UnderWay, Answered
    <3> QED BY <1>4, <1>5, <1>17, <3>1, <3>2
  <2>5. WorkOrder' /\ DoneInv'
      BY <1>5, <1>19, <2>1, <2>3 DEF IInv, Connected, WorkOrder, DoneInv, UnderWay
  <2>6. ReplyOrder'
    <3>1. \A i \in 1 .. Len(replies) : replies'[i].tag = replies[i].tag /\ replies[i].tag \in Used'
        BY <1>17, <2>4 DEF LiveInv
    <3> QED BY <1>17, <1>19, <2>3, <3>1 DEF IInv, Connected, ReplyOrder
  <2>7. \A q \in Proc : pc'[q] = "write" =>
           q /= p /\ pc[q] = "write" /\ cur[q] \in Used'
      BY <1>1, <1>3, <1>4, CurTag
  <2>8. WriteInv'
      BY <1>3, <1>5, <1>19, <2>1, <2>7 DEF IInv, Connected, WriteInv, UnderWay
  <2>9. FreeInv'
      BY <1>3, <1>5, <1>15, <1>19, <2>1 DEF IInv, Connected, FreeInv, UnderWay
  <2> QED BY <2>4, <2>5, <2>6, <2>8, <2>9 DEF Connected
<1> QED BY <1>2, <1>9, <1>10, <1>11, <1>12, <1>14, <1>18, <1>19 DEF IInv, Frame

LEMMA MntflushfreeIInv ==
    ASSUME IInv, NEW p \in Proc, Mntflushfree(p)
    PROVE  IInv'
<1>1. CASE flushed[cur[p]] = NoTag
    BY <1>1, FreeRequestIInv
<1>2. CASE flushed[cur[p]] /= NoTag
  <2>1. cur[p] \in Tag /\ cur[p] \in Used /\ pc[p] = "free"
      BY CurTag DEF Mntflushfree
  <2>2. flushed[cur[p]] \in Tag
      BY <1>2, <2>1 DEF IInv, TypeOK
  <2>3. /\ Mntfree(cur[p]) /\ cur' = [cur EXCEPT ![p] = flushed[cur[p]]] /\ pc' = pc
        /\ queue' = queue \ {cur[p]} /\ reply' = [reply EXCEPT ![cur[p]] = "Tmax"]
        /\ done' = [done EXCEPT ![cur[p]] = TRUE]
        /\ rip' = rip /\ mux' = mux /\ fails' = fails /\ broken' = broken
      BY <1>2 DEF Mntflushfree
  <2>4. TypeOK'
    <3>1. /\ rpcfree' \in SUBSET Tag /\ queue' \in SUBSET Tag
          /\ done' \in [Tag -> BOOLEAN] /\ asked' \in [Tag -> Proc \cup {NoProc}]
          /\ reply' \in [Tag -> {"Tmax", "Rflush", "own", "other"}]
        BY <2>1, <2>3 DEF IInv, TypeOK, Mntfree
    <3>2. /\ flushed' \in [Tag -> Tag \cup {NoTag}] /\ oldtag' \in [Tag -> Tag \cup {NoTag}]
          /\ depth' \in [Tag -> Nat]
        BY <2>3 DEF IInv, TypeOK, Mntfree
    <3>3. /\ cur' \in [Proc -> Tag \cup {NoTag}]
          /\ \A q \in Proc : cur'[q] = NoTag <=> pc'[q] = "idle"
        BY <2>1, <2>2, <2>3, MntAssumption DEF IInv, TypeOK
    <3> QED BY <2>3, <3>1, <3>2, <3>3 DEF IInv, TypeOK
  <2>5. \A u \in Tag : u /= cur[p] => reply'[u] = reply[u] /\ done'[u] = done[u]
      BY <2>3 DEF IInv, TypeOK
  <2> QED BY <1>2, <2>1, <2>3, <2>4, <2>5, GiveBackIInv
<1> QED BY <1>1, <1>2

LEMMA RpcReturnIInv ==
    ASSUME IInv, NEW p \in Proc, RpcReturn(p)
    PROVE  IInv'
<1>1. cur[p] \in Tag /\ pc[p] = "end"
    BY CurTag DEF RpcReturn
<1>2. /\ Mntfree(cur[p]) /\ cur' = [cur EXCEPT ![p] = NoTag]
      /\ pc' = [pc EXCEPT ![p] = "idle"] /\ reply' = [reply EXCEPT ![cur[p]] = "Tmax"]
      /\ fails' = [fails EXCEPT ![p] = FALSE] /\ queue' = queue /\ rip' = rip
      /\ done' = done /\ mux' = mux /\ broken' = broken
    BY DEF RpcReturn, Goto
<1>3. TypeOK'
  <2>1. /\ rpcfree' \in SUBSET Tag /\ queue' \in SUBSET Tag
        /\ done' \in [Tag -> BOOLEAN] /\ asked' \in [Tag -> Proc \cup {NoProc}]
        /\ reply' \in [Tag -> {"Tmax", "Rflush", "own", "other"}]
      BY <1>1, <1>2 DEF IInv, TypeOK, Mntfree
  <2>2. /\ flushed' \in [Tag -> Tag \cup {NoTag}] /\ oldtag' \in [Tag -> Tag \cup {NoTag}]
        /\ depth' \in [Tag -> Nat]
      BY <1>2 DEF IInv, TypeOK, Mntfree
  <2>3. /\ cur' \in [Proc -> Tag \cup {NoTag}] /\ pc' \in [Proc -> PcSet]
        /\ fails' \in [Proc -> BOOLEAN]
        /\ \A q \in Proc : cur'[q] = NoTag <=> pc'[q] = "idle"
      BY <1>2 DEF IInv, TypeOK, PcSet
  <2> QED BY <1>2, <2>1, <2>2, <2>3 DEF IInv, TypeOK
<1>4. \A u \in Tag : u /= cur[p] => reply'[u] = reply[u] /\ done'[u] = done[u]
    BY <1>2 DEF IInv, TypeOK
<1> QED BY <1>1, <1>2, <1>3, <1>4, GiveBackIInv

-----------------------------------------------------------------------------
(* The server answers a request when it has answered or forgotten those of *)
(* the same process that come before it.                                   *)
LEMMA SendIInv ==
    ASSUME IInv, ~broken, NEW m \in work, Send(m), work' \in SUBSET work,
           \A k \in work' : ~UpTo(k.tag, m.tag),
           UNCHANGED <<rpcs, queue, rip, pc, cur, mux, fails, broken>>
    PROVE  IInv'
<1>1. PICK t \in Used : t = m.tag /\ m = Request(t) /\ t \in Tag
    BY DEF IInv, ServerInv, Used
<1> DEFINE n == Len(replies)
           r == [tag |-> t, for |-> asked[t]]
<1>2. /\ replies' = Append(replies, r) /\ r.tag = t /\ r.for = asked[t]
      /\ replies \in Seq(Reply) /\ n \in Nat /\ r \in Reply
  <2>1. asked[t] \in Proc
      BY DEF IInv, Frame, OwnerInv
  <2>2. m.tag = t /\ m.for = asked[t]
      BY <1>1 DEF Request
  <2> QED BY <1>1, <2>1, <2>2, LenProperties DEF Send, Reply, IInv, ServerInv
<1> HIDE DEF r
<1>3. /\ replies' \in Seq(Reply) /\ Len(replies') = n + 1
      /\ replies'[n + 1] = r /\ \A i \in 1 .. n : replies'[i] = replies[i]
    BY <1>2, AppendProperties
<1>4. /\ rpcfree' = rpcfree /\ done' = done /\ reply' = reply /\ flushed' = flushed
      /\ oldtag' = oldtag /\ depth' = depth
      /\ asked' = asked /\ queue' = queue /\ rip' = rip /\ pc' = pc /\ cur' = cur
      /\ mux' = mux /\ fails' = fails /\ broken' = broken
    BY DEF rpcs, links
<1>5. \A i \in 1 .. n + 1 : i \in 1 .. n \/ i = n + 1
    BY <1>2
<1> HIDE DEF n
<1>6. TypeOK'
    BY <1>4 DEF IInv, TypeOK
<1>7. Frame'
    BY <1>4 DEF IInv, Frame, OwnerInv, UniqueInv, ChainInv, CurInv, Used
<1>8. RpcInv'
    BY <1>4 DEF IInv, RpcInv, Exempt, Used
<1>9. Connected /\ Asked(t)
    BY <1>1 DEF IInv, Asked
<1>10. LiveInv'
  <2> SUFFICES ASSUME NEW i \in 1 .. n + 1
               PROVE  replies'[i].tag \in Used /\ replies'[i].for = asked[replies'[i].tag]
      BY <1>3, <1>4 DEF LiveInv, Used
  <2>1. CASE i \in 1 .. n
      BY <1>3, <1>9, <2>1 DEF Connected, LiveInv, n
  <2>2. CASE i = n + 1
      BY <1>2, <1>3, <2>2
  <2> QED BY <1>5, <2>1, <2>2
<1>11. ServerInv'
  <2>1. \A u : Request(u)' = Request(u)
      BY <1>4 DEF Request
  <2>2. \A k \in work' : k.tag \in Used' /\ k = Request(k.tag)'
      BY <1>4, <2>1 DEF IInv, ServerInv, Used
  <2> QED BY <1>3, <1>4, <1>10, <2>2 DEF ServerInv, LiveInv
<1>12. \A u, v : UpTo(u, v)' <=> UpTo(u, v)
    BY <1>4 DEF UpTo
<1>13. \A u : Asked(u)' => Asked(u) /\ ~UpTo(u, t)
    BY <1>1 DEF Asked
<1>14. \A u : Answered(u)' <=> Answered(u) \/ u = t
  <2>1. 1 .. n \subseteq 1 .. n + 1 /\ n + 1 \in 1 .. n + 1
      BY <1>2
  <2> QED BY <1>2, <1>3, <1>5, <2>1 DEF Answered, n
<1>15. \A u : UnderWay(u)' => UnderWay(u)
    BY <1>9, <1>13, <1>14 DEF UnderWay
<1>16. WriteInv' /\ FreeInv' /\ DoneInv'
    BY <1>4, <1>9, <1>12, <1>15 DEF Connected, WriteInv, FreeInv, DoneInv, Used
<1>17. WorkOrder'
    BY <1>4, <1>9, <1>12, <1>13, <1>14 DEF Connected, WorkOrder, Used
<1>18. ReplyOrder'
  <2> SUFFICES ASSUME NEW i \in 1 .. n + 1, NEW j \in 1 .. n + 1, i < j
               PROVE  ~UpTo(replies'[j].tag, replies'[i].tag)
      BY <1>3, <1>12 DEF ReplyOrder
  <2>1. i \in 1 .. n
      BY <1>2
  <2>2. CASE j \in 1 .. n
      BY <1>3, <1>9, <2>1, <2>2 DEF Connected, ReplyOrder, n
  <2>3. CASE j = n + 1
    <3>1. replies'[i] = replies[i] /\ replies[i].tag \in Used /\ Answered(replies[i].tag)
        BY <1>3, <1>9, <2>1 DEF Connected, LiveInv, Answered, n
    <3> QED BY <1>2, <1>3, <1>9, <2>3, <3>1 DEF Connected, WorkOrder
  <2> QED BY <1>5, <2>2, <2>3
<1> QED BY <1>6, <1>7, <1>8, <1>10, <1>11, <1>16, <1>17, <1>18 DEF IInv, Connected

LEMMA AnswerIInv ==
    ASSUME IInv, NEW m \in work, Answer(m)
    PROVE  IInv'
<1>1. \A k \in work : /\ k.tag \in Used /\ k.tag \in Tag /\ k = Request(k.tag)
                      /\ k.old = oldtag[k.tag] /\ depth[k.tag] \in Nat
    BY DEF IInv, TypeOK, ServerInv, Request, Used
<1>2. depth[m.tag] = 0
    BY <1>1, MntAssumption DEF Answer, IInv, Frame, ChainInv, Used
<1>3. ASSUME NEW k \in work, UpTo(k.tag, m.tag) PROVE k = m
  <2>1. asked[k.tag] = asked[m.tag] /\ depth[k.tag] = depth[m.tag]
      BY <1>1, <1>2, <1>3 DEF UpTo
  <2>2. k.tag = m.tag
      BY <1>1, <2>1 DEF IInv, Frame, UniqueInv
  <2> QED BY <1>1, <2>2
<1> QED BY <1>3, SendIInv DEF Answer

(* Of what comes before a Tflush, the request is forgotten and the earlier *)
(* Tflushes have been answered.                                            *)
LEMMA AnswerFlushIInv ==
    ASSUME IInv, NEW m \in work, AnswerFlush(m)
    PROVE  IInv'
<1>1. \A k \in work : /\ k.tag \in Used /\ k.tag \in Tag /\ k.depth = depth[k.tag]
                      /\ k.old = oldtag[k.tag] /\ depth[k.tag] \in Nat
    BY DEF IInv, TypeOK, ServerInv, Request, Used
<1>2. \A k \in work : /\ depth[k.tag] /= 0 =>
                            k.old \in Used /\ asked[k.old] = asked[k.tag] /\ depth[k.old] = 0
                      /\ k.old /= NoTag => depth[k.tag] /= 0
  <2> SUFFICES ASSUME NEW k \in work
               PROVE  /\ depth[k.tag] /= 0 =>
                            k.old \in Used /\ asked[k.old] = asked[k.tag] /\ depth[k.old] = 0
                      /\ k.old /= NoTag => depth[k.tag] /= 0
      OBVIOUS
  <2>1. CASE flushed[k.tag] = NoTag
      BY <1>1, <2>1 DEF IInv, Frame, ChainInv
  <2>2. CASE flushed[k.tag] /= NoTag
    <3>1. /\ flushed[k.tag] \in Used /\ depth[k.tag] = depth[flushed[k.tag]] + 1
          /\ k.old \in Used /\ asked[k.old] = asked[k.tag] /\ depth[k.old] = 0
        BY <1>1, <2>2 DEF IInv, Frame, ChainInv
    <3>2. depth[flushed[k.tag]] \in Nat
        BY <3>1 DEF IInv, TypeOK, Used
    <3> QED BY <3>1, <3>2
  <2> QED BY <2>1, <2>2
<1>3. m.old \in Used /\ asked[m.old] = asked[m.tag] /\ depth[m.old] = 0
    BY <1>2 DEF AnswerFlush
<1>4. ASSUME NEW k \in work', UpTo(k.tag, m.tag) PROVE FALSE
  <2>1. /\ k \in work /\ k.tag /= m.tag /\ k.tag /= m.old
        /\ k.old = m.old => k.depth >= m.depth
      BY <1>4 DEF AnswerFlush
  <2>2. asked[k.tag] = asked[m.tag] /\ depth[k.tag] <= depth[m.tag]
      BY <1>4 DEF UpTo
  <2>3. depth[k.tag] /= 0
      BY <1>1, <1>3, <2>1, <2>2 DEF IInv, Frame, UniqueInv
  <2>4. k.old = m.old
      BY <1>2, <1>3, <2>1, <2>2, <2>3 DEF IInv, Frame, UniqueInv
  <2>5. depth[k.tag] = depth[m.tag]
      BY <1>1, <2>1, <2>2, <2>4
  <2> QED BY <1>1, <2>1, <2>2, <2>5 DEF IInv, Frame, UniqueInv
<1>5. work' \in SUBSET work
    BY DEF AnswerFlush
<1> QED BY <1>4, <1>5, SendIInv DEF AnswerFlush

LEMMA HangupIInv ==
    ASSUME IInv, Hangup
    PROVE  IInv'
<1>1. /\ rpcfree' = rpcfree /\ done' = done /\ reply' = reply /\ flushed' = flushed
      /\ oldtag' = oldtag /\ depth' = depth
      /\ asked' = asked /\ queue' = queue /\ rip' = rip /\ pc' = pc /\ cur' = cur
      /\ mux' = mux /\ fails' = fails /\ broken' = TRUE /\ work' = {}
      /\ replies' = replies
    BY DEF Hangup, rpcs, links
<1>2. TypeOK' /\ Frame'
    BY <1>1 DEF IInv, TypeOK, Frame, OwnerInv, UniqueInv, ChainInv, CurInv, Used
<1>3. RpcInv' /\ ServerInv'
    BY <1>1 DEF IInv, RpcInv, ServerInv, Exempt, Used
<1> QED BY <1>1, <1>2, <1>3 DEF IInv

-----------------------------------------------------------------------------
LEMMA InitIInv == Init => IInv
<1> SUFFICES ASSUME Init PROVE IInv
    OBVIOUS
<1>1. TypeOK
    BY DEF Init, TypeOK, PcSet
<1>2. Used = {} /\ \A p \in Proc : pc[p] = "idle"
    BY DEF Init, Used
<1>3. Frame /\ RpcInv
    BY <1>2 DEF Init, Frame, OwnerInv, UniqueInv, ChainInv, CurInv, RpcInv
<1>4. work = {} /\ replies = <<>> /\ Len(replies) = 0
    BY DEF Init
<1>5. ServerInv
    BY <1>4 DEF ServerInv
<1>6. Connected
    BY <1>2, <1>4 DEF Connected, LiveInv, WriteInv, WorkOrder, ReplyOrder, DoneInv, FreeInv
<1> QED BY <1>1, <1>3, <1>5, <1>6 DEF IInv

LEMMA StepIInv == IInv /\ [Next]_vars => IInv'
<1> SUFFICES ASSUME IInv, [Next]_vars PROVE IInv'
    OBVIOUS
<1>1. ASSUME NEW p \in Proc, RpcCall(p) PROVE IInv'
  <2>1. PICK t \in rpcfree : Begin(p, t)
      BY <1>1 DEF RpcCall
  <2> QED BY <1>1, <2>1, BeginIInv DEF RpcCall
<1>2. ASSUME NEW p \in Proc, Step(p) PROVE IInv'
  <2>1. CASE FlushAlloc(p)
    <3>1. PICK t \in rpcfree :
            /\ Begin(p, t)
            /\ flushed' = [flushed EXCEPT ![t] = cur[p]]
            /\ oldtag' = [oldtag EXCEPT ![t] =
                            IF flushed[cur[p]] = NoTag THEN cur[p] ELSE oldtag[cur[p]]]
            /\ depth' = [depth EXCEPT ![t] = depth[cur[p]] + 1]
        BY <2>1 DEF FlushAlloc
    <3> QED BY <2>1, <3>1, BeginIInv DEF FlushAlloc
  <2> QED BY <1>2, <2>1, QuietIInv, WriteIInv, MountmuxIInv, MntflushfreeIInv, RpcReturnIInv
      DEF Step
<1>3. ASSUME NEW p \in Proc, SleepInterrupted(p) \/ ReadInterrupted(p) PROVE IInv'
    BY <1>3, QuietIInv
<1>4. CASE UNCHANGED vars
    BY <1>4, MoveIInv DEF vars, rpcs, links, server, IInv, TypeOK
<1> QED BY <1>1, <1>2, <1>3, <1>4, AnswerIInv, AnswerFlushIInv, HangupIInv DEF Next

LEMMA InvIInv == Spec => []IInv
    BY InitIInv, StepIInv, PTL DEF Spec

-----------------------------------------------------------------------------
(* A process gets the reply to its own request or Rflush, or an error:     *)
(* never a reply that it read for another process, nor one to an earlier   *)
(* use of its tag, by whomever, also when the connection is hung up and    *)
(* tags are free while they are still to be answered.                      *)
THEOREM MntReplyToRequester == Spec => []ReplyToRequester
<1>1. ASSUME IInv PROVE ReplyToRequester
  <2> SUFFICES ASSUME NEW p \in Proc, pc[p] = "end", ~fails[p]
               PROVE  reply[cur[p]] \in {"own", "Rflush"}
      BY DEF ReplyToRequester
  <2>1. cur[p] \in Used /\ asked[cur[p]] = p /\ done[cur[p]]
      BY <1>1, CurTag DEF IInv, Frame, CurInv
  <2>2. ~Exempt(cur[p])
      BY <2>1 DEF Exempt
  <2> QED BY <1>1, <2>1, <2>2 DEF IInv, RpcInv
<1> QED BY <1>1, InvIInv, PTL

(* While the connection lasts, no tag is free while the server may still   *)
(* answer it or an answer is unread, and what is under way is for the      *)
(* request that has the tag, however often it was interrupted and flushed. *)
THEOREM MntTagNotReused == Spec => []TagNotReused
<1>1. ASSUME IInv PROVE TagNotReused
  <2> SUFFICES ASSUME ~broken, NEW m \in work \cup ToSet(replies)
               PROVE  m.tag \notin rpcfree /\ asked[m.tag] = m.for
      BY <1>1 DEF IInv, TagNotReused
  <2>1. CASE m \in work
      BY <1>1, <2>1 DEF IInv, ServerInv, Request, Used
  <2>2. CASE m \in ToSet(replies)
    <3>1. PICK i \in 1 .. Len(replies) : m = replies[i]
        BY <1>1, <2>2 DEF ToSet, IInv, ServerInv
    <3> QED BY <1>1, <3>1 DEF IInv, Connected, LiveInv, Used
  <2> QED BY <2>1, <2>2
<1> QED BY <1>1, InvIInv, PTL

-----------------------------------------------------------------------------
(* Queues.                                                                 *)

(* Where readers, writers and others can be in their operations.           *)
Roles ==
    /\ \A r \in Reader : at[r] \in {"idle", "wait", "sleep", "asleep", "copy", "wakewr"}
    /\ \A w \in Writer : at[w] \in {"idle", "wakerr", "full", "flow", "sleep", "asleep"}
    /\ \A o \in Other : at[o] \in {"idle", "wakerr", "wakewr", "both"}

(* The QLocks let one process read and one write.                          *)
QLocksHeld ==
    /\ \A r \in Reader : at[r] /= "idle" <=> rlock = r
    /\ \A w \in Writer : at[w] /= "idle" <=> wlock = w

(* Processes are at the ends that the kind of the Queue has for them.      *)
Ends ==
    /\ rlock /= Nobody => use \in {"pipe", "in"}
    /\ wlock /= Nobody => use \in {"pipe", "out", "uart"}

(* Who goes to sleep has set its flag, or will find when it looks again    *)
(* that there is no need: for a writer, even when all that a reader has in *)
(* its hands is put back.                                                  *)
AboutToSleep ==
    /\ \A r \in Reader : at[r] = "sleep" => starve \/ notempty
    /\ \A w \in Writer : use /= "uart" /\ at[w] = "sleep" =>
            flow \/ closed \/ len + blockalloclen(hand) < Limit

(* qread takes a single block, or several that fit in the read.            *)
HandFits == Len(hand) /= 1 => blocklen(hand) <= want

QioInv ==
    /\ LenAccurate /\ Roles /\ QLocksHeld /\ Ends
    /\ HandFits /\ AboutToSleep /\ SleeperWillBeWoken

-----------------------------------------------------------------------------
(* What the blocks of lists hold.                                          *)
LEMMA BlockParts ==
    ASSUME NEW b \in Blocks
    PROVE  /\ b.data \in Seq(Byte) /\ b.alloc \in Nat
           /\ BLEN(b) \in Nat /\ BLEN(b) <= b.alloc
BY DEF Blocks, BLEN

LEMMA BlockOf ==
    ASSUME NEW d \in Seq(Byte), NEW n \in Nat, Len(d) <= n
    PROVE  [data |-> d, alloc |-> n] \in Blocks
BY DEF Blocks, BLEN

LEMMA NewBlock ==
    ASSUME NEW d \in Seq(Byte)
    PROVE  /\ Block(d) \in Blocks
           /\ Block(d).alloc = Len(d) + 1 /\ Block(d).data = d /\ BLEN(Block(d)) = Len(d)
<1>1. Len(d) \in Nat /\ Len(d) <= Len(d) + 1
    OBVIOUS
<1> QED BY <1>1, BlockOf DEF Block, Alloc, BLEN

LEMMA BlockSums ==
    ASSUME NEW bs \in Seq(Blocks)
    PROVE  blockalloclen(bs) \in Nat /\ blocklen(bs) \in Nat
<1>1. DOMAIN bs = 1 .. Len(bs) /\ IsFiniteSet(1 .. Len(bs)) /\ \A i \in 1 .. Len(bs) : bs[i] \in Blocks
    BY LenProperties, FS_Interval
<1>2. /\ [i \in DOMAIN bs |-> bs[i].alloc] \in [1 .. Len(bs) -> Nat]
      /\ [i \in DOMAIN bs |-> BLEN(bs[i])] \in [1 .. Len(bs) -> Nat]
    BY <1>1, BlockParts
<1> QED BY <1>1, <1>2, SumNat DEF blockalloclen, blocklen

LEMMA BlockSumsConcat ==
    ASSUME NEW bs \in Seq(Blocks), NEW cs \in Seq(Blocks)
    PROVE  /\ bs \o cs \in Seq(Blocks)
           /\ blockalloclen(bs \o cs) = blockalloclen(bs) + blockalloclen(cs)
           /\ blocklen(bs \o cs) = blocklen(bs) + blocklen(cs)
<1> DEFINE ds == bs \o cs
           m == Len(bs)
           k == Len(cs)
<1>1. /\ ds \in Seq(Blocks)
      /\ \A i \in 1 .. m + k : ds[i] = IF i <= m THEN bs[i] ELSE cs[i - m]
      /\ Len(ds) = m + k
    BY ConcatProperties
<1>2. /\ DOMAIN bs = 1 .. m /\ DOMAIN cs = 1 .. k /\ DOMAIN ds = 1 .. Len(ds)
      /\ m \in Nat /\ k \in Nat
    BY <1>1, LenProperties
<1> HIDE DEF ds, m, k
<1>3. \A i \in 1 .. m : ds[i] = bs[i]
    BY <1>1, <1>2
<1>4. \A i \in 1 .. k : ds[m + i] = cs[i]
    BY <1>1, <1>2
<1>5. /\ \A i \in 1 .. m : bs[i].alloc \in Nat /\ BLEN(bs[i]) \in Nat
      /\ \A i \in 1 .. k : cs[i].alloc \in Nat /\ BLEN(cs[i]) \in Nat
      /\ \A i \in 1 .. m + k : ds[i].alloc \in Nat /\ BLEN(ds[i]) \in Nat
    BY <1>1, <1>2, ElementOfSeq, BlockParts DEF m, k
<1>6. blockalloclen(ds) = blockalloclen(bs) + blockalloclen(cs)
  <2> DEFINE f == [i \in DOMAIN bs |-> bs[i].alloc]
             g == [i \in DOMAIN cs |-> cs[i].alloc]
             h == [i \in DOMAIN ds |-> ds[i].alloc]
  <2>1. /\ f \in [1 .. m -> Nat] /\ g \in [1 .. k -> Nat] /\ h \in [1 .. m + k -> Nat]
        /\ \A i \in 1 .. m : h[i] = f[i]
        /\ \A i \in 1 .. k : h[m + i] = g[i]
      BY <1>1, <1>2, <1>3, <1>4, <1>5
  <2> HIDE DEF f, g, h
  <2>2. SumFunction(h) = SumFunction(f) + SumFunction(g)
      BY <1>2, <2>1, SumConcat, ZenonT(60)
  <2> QED BY <2>2 DEF f, g, h, blockalloclen
<1>7. blocklen(ds) = blocklen(bs) + blocklen(cs)
  <2> DEFINE f == [i \in DOMAIN bs |-> BLEN(bs[i])]
             g == [i \in DOMAIN cs |-> BLEN(cs[i])]
             h == [i \in DOMAIN ds |-> BLEN(ds[i])]
  <2>1. /\ f \in [1 .. m -> Nat] /\ g \in [1 .. k -> Nat] /\ h \in [1 .. m + k -> Nat]
        /\ \A i \in 1 .. m : h[i] = f[i]
        /\ \A i \in 1 .. k : h[m + i] = g[i]
      BY <1>1, <1>2, <1>3, <1>4, <1>5
  <2> HIDE DEF f, g, h
  <2>2. SumFunction(h) = SumFunction(f) + SumFunction(g)
      BY <1>2, <2>1, SumConcat, ZenonT(60)
  <2> QED BY <2>2 DEF f, g, h, blocklen
<1> QED BY <1>1, <1>6, <1>7 DEF ds

LEMMA BlockSumsEmpty == blockalloclen(<<>>) = 0 /\ blocklen(<<>>) = 0
<1>1. <<>> \in Seq(Blocks) /\ <<>> \o <<>> = <<>>
    OBVIOUS
<1>2. blockalloclen(<<>>) \in Nat /\ blocklen(<<>>) \in Nat
    BY <1>1, BlockSums
<1>3. /\ blockalloclen(<<>>) = blockalloclen(<<>>) + blockalloclen(<<>>)
      /\ blocklen(<<>>) = blocklen(<<>>) + blocklen(<<>>)
    BY <1>1, BlockSumsConcat
<1>4. ASSUME NEW n \in Nat, n = n + n PROVE n = 0
    BY <1>4
<1> QED BY <1>2, <1>3, <1>4, Zenon

LEMMA NothingIsLighter ==
    ASSUME NEW bs \in Seq(Blocks)
    PROVE  blockalloclen(<<>>) <= blockalloclen(bs)
<1>1. blockalloclen(bs) \in Nat
    BY BlockSums
<1>2. 0 <= blockalloclen(bs)
    BY <1>1
<1> QED BY <1>2, BlockSumsEmpty

LEMMA BlockSumsOne ==
    ASSUME NEW b \in Blocks
    PROVE  blockalloclen(<<b>>) = b.alloc /\ blocklen(<<b>>) = BLEN(b)
<1>1. b.alloc \in Nat /\ BLEN(b) \in Nat
    BY BlockParts
<1>2. ASSUME NEW n \in Nat PROVE SumFunction([i \in {1} |-> n]) = n
  <2> DEFINE f == [i \in {1} |-> n]
  <2>1. f \in [{1} -> Nat] /\ f[1] = n /\ IsFiniteSet({1}) /\ {1} \ {1} = {} /\ DOMAIN f = {1}
      BY FS_Singleton
  <2> HIDE DEF f
  <2>2. SumFunctionOnSet(f, {1}) = Cardinality(Tokens(f, {1}))
      BY <2>1, SumIsTokens
  <2>3. Cardinality(Tokens(f, {1})) = n + Cardinality(Tokens(f, {1} \ {1}))
      BY <2>1, TokensOfOneLess
  <2>4. SumFunctionOnSet(f, {1}) = n
      BY <2>1, <2>2, <2>3, TokensOfNone
  <2> QED BY <2>1, <2>4 DEF f, SumFunction
<1>3. DOMAIN <<b>> = {1} /\ <<b>>[1] = b
    OBVIOUS
<1>4. /\ [i \in DOMAIN <<b>> |-> <<b>>[i].alloc] = [i \in {1} |-> b.alloc]
      /\ [i \in DOMAIN <<b>> |-> BLEN(<<b>>[i])] = [i \in {1} |-> BLEN(b)]
    BY <1>3
<1> QED BY <1>1, <1>2, <1>4 DEF blockalloclen, blocklen

LEMMA BlockSumsSplit ==
    ASSUME NEW bs \in Seq(Blocks), NEW k \in 0 .. Len(bs)
    PROVE  /\ SubSeq(bs, 1, k) \in Seq(Blocks) /\ Dropped(bs, k) \in Seq(Blocks)
           /\ blockalloclen(bs) = blockalloclen(SubSeq(bs, 1, k)) + blockalloclen(Dropped(bs, k))
           /\ blocklen(bs) = blocklen(SubSeq(bs, 1, k)) + blocklen(Dropped(bs, k))
<1> DEFINE cs == SubSeq(bs, 1, k)
           ds == Dropped(bs, k)
<1>1. cs \in Seq(Blocks) /\ ds \in Seq(Blocks) /\ bs = cs \o ds
    BY SplitAt DEF Dropped
<1> HIDE DEF cs, ds
<1>2. /\ blockalloclen(cs \o ds) = blockalloclen(cs) + blockalloclen(ds)
      /\ blocklen(cs \o ds) = blocklen(cs) + blocklen(ds)
    BY <1>1, BlockSumsConcat
<1> QED BY <1>1, <1>2 DEF cs, ds

(* The counters stay right when blocks are taken or put back ...           *)
LEMMA Replaced ==
    ASSUME LenAccurate, NEW k \in 0 .. Len(blocks), NEW bs \in Seq(Blocks), Replace(k, bs)
    PROVE  /\ blocks' \in Seq(Blocks) /\ len' \in Nat /\ dlen' \in Nat
           /\ len' = blockalloclen(blocks') /\ dlen' = blocklen(blocks')
           /\ blocks' = bs \o Dropped(blocks, k)
           /\ blockalloclen(SubSeq(blocks, 1, k)) \in Nat /\ blockalloclen(bs) \in Nat
           /\ len' + blockalloclen(SubSeq(blocks, 1, k)) = len + blockalloclen(bs)
<1> DEFINE cs == SubSeq(blocks, 1, k)
           ds == Dropped(blocks, k)
<1>1. /\ blocks \in Seq(Blocks) /\ len = blockalloclen(blocks) /\ dlen = blocklen(blocks)
    BY DEF LenAccurate, QioTypeOK
<1>2. /\ cs \in Seq(Blocks) /\ ds \in Seq(Blocks)
      /\ blockalloclen(blocks) = blockalloclen(cs) + blockalloclen(ds)
      /\ blocklen(blocks) = blocklen(cs) + blocklen(ds)
    BY <1>1, BlockSumsSplit
<1>3. /\ bs \o ds \in Seq(Blocks)
      /\ blockalloclen(bs \o ds) = blockalloclen(bs) + blockalloclen(ds)
      /\ blocklen(bs \o ds) = blocklen(bs) + blocklen(ds)
    BY <1>2, BlockSumsConcat
<1>4. /\ blockalloclen(bs) \in Nat /\ blockalloclen(cs) \in Nat /\ blockalloclen(ds) \in Nat
      /\ blocklen(bs) \in Nat /\ blocklen(cs) \in Nat /\ blocklen(ds) \in Nat
    BY <1>2, BlockSums
<1>5. /\ blocks' = bs \o ds
      /\ len' = len - blockalloclen(cs) + blockalloclen(bs)
      /\ dlen' = dlen - blocklen(cs) + blocklen(bs)
    BY DEF Replace
<1> HIDE DEF cs, ds
<1>6. len' = blockalloclen(bs) + blockalloclen(ds)
    BY <1>1, <1>2, <1>4, <1>5, SMTT(30)
<1>7. dlen' = blocklen(bs) + blocklen(ds)
    BY <1>1, <1>2, <1>4, <1>5, SMTT(30)
<1>8. len' \in Nat /\ dlen' \in Nat
    BY <1>4, <1>6, <1>7
<1>9. len' = blockalloclen(bs \o ds) /\ dlen' = blocklen(bs \o ds)
    BY <1>3, <1>6, <1>7
<1>10. len' + blockalloclen(cs) = len + blockalloclen(bs)
    BY <1>1, <1>2, <1>4, <1>6
<1> QED BY <1>3, <1>4, <1>5, <1>8, <1>9, <1>10 DEF cs, ds

(* ... or added.                                                           *)
LEMMA Added ==
    ASSUME LenAccurate, NEW d \in Data, NEW a, NEW next, Add(a, d, next)
    PROVE  /\ blocks' \in Seq(Blocks) /\ len' \in Nat /\ dlen' \in Nat
           /\ len' = blockalloclen(blocks') /\ dlen' = blocklen(blocks')
           /\ blocks' /= <<>>
           /\ len <= len'
<1>1. d \in Seq(Byte)
    BY QioAssumption
<1> DEFINE b == Block(d)
<1>2. b \in Blocks /\ b.alloc = Len(d) + 1 /\ BLEN(b) = Len(d) /\ Len(d) \in Nat
    BY <1>1, NewBlock
<1>3. /\ blocks \in Seq(Blocks) /\ len = blockalloclen(blocks) /\ dlen = blocklen(blocks)
      /\ len \in Nat /\ dlen \in Nat
    BY DEF LenAccurate, QioTypeOK
<1>4. /\ blocks' = Append(blocks, b) /\ len' = len + (Len(d) + 1) /\ dlen' = dlen + Len(d)
    BY DEF Add, Alloc
<1> HIDE DEF b
<1>5. blocks' = blocks \o <<b>> /\ blocks' /= <<>>
    BY <1>2, <1>3, <1>4, AppendIsConcat, AppendProperties, SMTT(30)
<1>6. <<b>> \in Seq(Blocks)
    BY <1>2
<1>7. /\ blocks \o <<b>> \in Seq(Blocks)
      /\ blockalloclen(blocks \o <<b>>) = blockalloclen(blocks) + blockalloclen(<<b>>)
      /\ blocklen(blocks \o <<b>>) = blocklen(blocks) + blocklen(<<b>>)
    BY <1>3, <1>6, BlockSumsConcat
<1>8. blockalloclen(<<b>>) = Len(d) + 1 /\ blocklen(<<b>>) = Len(d)
    BY <1>2, BlockSumsOne
<1>9. len' = blockalloclen(blocks \o <<b>>) /\ dlen' = blocklen(blocks \o <<b>>)
    BY <1>3, <1>4, <1>7, <1>8
<1>10. len' \in Nat /\ dlen' \in Nat /\ len <= len'
    BY <1>2, <1>3, <1>4
<1> QED BY <1>5, <1>7, <1>9, <1>10

(* The bytes of a list of blocks, one block after the other.               *)
LEMMA BytesOfNone == Bytes(<<>>) = <<>>
<1>1. [i \in DOMAIN <<>> |-> <<>>[i].data] = <<>>
    OBVIOUS
<1> QED BY <1>1, FlattenOfNone DEF Bytes

LEMMA DataOf ==
    ASSUME NEW bs \in Seq(Blocks)
    PROVE  /\ [i \in DOMAIN bs |-> bs[i].data] \in Seq(Seq(Byte))
           /\ Len([i \in DOMAIN bs |-> bs[i].data]) = Len(bs)
<1>1. Len(bs) \in Nat /\ DOMAIN bs = 1 .. Len(bs) /\ \A i \in 1 .. Len(bs) : bs[i] \in Blocks
    BY LenProperties
<1>2. \A i \in 1 .. Len(bs) : bs[i].data \in Seq(Byte)
    BY <1>1, BlockParts
<1> QED BY <1>1, <1>2

LEMMA BytesType ==
    ASSUME NEW bs \in Seq(Blocks)
    PROVE  Bytes(bs) \in Seq(Byte)
BY DataOf, FlattenType DEF Bytes

LEMMA BytesConcat ==
    ASSUME NEW bs \in Seq(Blocks), NEW cs \in Seq(Blocks)
    PROVE  Bytes(bs \o cs) = Bytes(bs) \o Bytes(cs)
<1> DEFINE ds == bs \o cs
           s == [i \in DOMAIN bs |-> bs[i].data]
           t == [i \in DOMAIN cs |-> cs[i].data]
           u == [i \in DOMAIN ds |-> ds[i].data]
<1>1. /\ ds \in Seq(Blocks) /\ Len(ds) = Len(bs) + Len(cs)
      /\ \A i \in 1 .. Len(bs) + Len(cs) : ds[i] = IF i <= Len(bs) THEN bs[i] ELSE cs[i - Len(bs)]
    BY ConcatProperties
<1>2. /\ Len(bs) \in Nat /\ Len(cs) \in Nat
      /\ DOMAIN bs = 1 .. Len(bs) /\ DOMAIN cs = 1 .. Len(cs)
    BY LenProperties
<1>3. DOMAIN ds = 1 .. Len(bs) + Len(cs)
    BY <1>1, LenProperties
<1> HIDE DEF ds
<1>4. /\ s \in Seq(Seq(Byte)) /\ Len(s) = Len(bs) /\ \A i \in 1 .. Len(bs) : s[i] = bs[i].data
      /\ t \in Seq(Seq(Byte)) /\ Len(t) = Len(cs) /\ \A i \in 1 .. Len(cs) : t[i] = cs[i].data
    BY <1>2, DataOf
<1>5. /\ u \in Seq(Seq(Byte)) /\ Len(u) = Len(bs) + Len(cs)
      /\ \A i \in 1 .. Len(bs) + Len(cs) : u[i] = ds[i].data
    BY <1>1, <1>3, DataOf
<1> HIDE DEF s, t, u
<1>6. /\ s \o t \in Seq(Seq(Byte)) /\ Len(s \o t) = Len(bs) + Len(cs)
      /\ \A i \in 1 .. Len(bs) + Len(cs) : (s \o t)[i] = IF i <= Len(bs) THEN s[i] ELSE t[i - Len(bs)]
  <2> DEFINE T == Seq(Byte)
  <2>1. s \in Seq(T) /\ t \in Seq(T)
      BY <1>4
  <2> HIDE DEF T
  <2>2. /\ s \o t \in Seq(T) /\ Len(s \o t) = Len(s) + Len(t)
        /\ \A i \in 1 .. Len(s) + Len(t) : (s \o t)[i] = IF i <= Len(s) THEN s[i] ELSE t[i - Len(s)]
      BY <2>1, ConcatProperties
  <2> QED BY <1>4, <2>2 DEF T
<1>7. ASSUME NEW i \in 1 .. Len(bs) + Len(cs) PROVE u[i] = (s \o t)[i]
  <2>1. CASE i <= Len(bs)
    <3>1. i \in 1 .. Len(bs)
        BY <1>2, <2>1
    <3> QED BY <1>1, <1>4, <1>5, <1>6, <2>1, <3>1
  <2>2. CASE ~(i <= Len(bs))
    <3>1. i - Len(bs) \in 1 .. Len(cs)
        BY <1>2, <2>2
    <3> QED BY <1>1, <1>4, <1>5, <1>6, <2>2, <3>1
  <2> QED BY <2>1, <2>2
<1>8. u = s \o t
  <2> DEFINE v == s \o t
  <2>1. /\ v \in Seq(Seq(Byte)) /\ Len(v) = Len(bs) + Len(cs)
        /\ \A i \in 1 .. Len(bs) + Len(cs) : u[i] = v[i]
      BY <1>6, <1>7
  <2> HIDE DEF v
  <2>2. u = v
      BY <1>5, <2>1, SeqEqual
  <2> QED BY <2>2 DEF v
<1>9. FlattenSeq(s \o t) = FlattenSeq(s) \o FlattenSeq(t)
    BY <1>4, FlattenConcat
<1> QED BY <1>8, <1>9 DEF Bytes, ds, s, t, u

LEMMA BytesOfOne ==
    ASSUME NEW b \in Blocks
    PROVE  Bytes(<<b>>) = b.data
<1>1. b.data \in Seq(Byte)
    BY BlockParts
<1>2. [i \in DOMAIN <<b>> |-> <<b>>[i].data] = <<b.data>>
    OBVIOUS
<1> QED BY <1>1, <1>2, FlattenOne DEF Bytes

LEMMA BytesSplit ==
    ASSUME NEW bs \in Seq(Blocks), NEW k \in 0 .. Len(bs)
    PROVE  Bytes(bs) = Bytes(SubSeq(bs, 1, k)) \o Bytes(Dropped(bs, k))
<1> DEFINE cs == SubSeq(bs, 1, k)
           ds == Dropped(bs, k)
<1>1. cs \in Seq(Blocks) /\ ds \in Seq(Blocks) /\ bs = cs \o ds
    BY SplitAt DEF Dropped
<1> HIDE DEF cs, ds
<1>2. Bytes(cs \o ds) = Bytes(cs) \o Bytes(ds)
    BY <1>1, BytesConcat
<1> QED BY <1>1, <1>2 DEF cs, ds

(* One more of the first blocks of a list.                                 *)
LEMMA FirstBlocks ==
    ASSUME NEW bs \in Seq(Blocks), NEW k \in 1 .. Len(bs)
    PROVE  /\ SubSeq(bs, 1, k - 1) \in Seq(Blocks) /\ bs[k] \in Blocks
           /\ SubSeq(bs, 1, k) = SubSeq(bs, 1, k - 1) \o <<bs[k]>>
           /\ Bytes(SubSeq(bs, 1, k)) = Bytes(SubSeq(bs, 1, k - 1)) \o bs[k].data
           /\ blocklen(SubSeq(bs, 1, k)) = blocklen(SubSeq(bs, 1, k - 1)) + BLEN(bs[k])
<1> DEFINE cs == SubSeq(bs, 1, k - 1)
           b == bs[k]
<1>1. Len(bs) \in Nat
    BY LenProperties
<1>2. k - 1 \in 0 .. Len(bs)
    BY <1>1
<1>3. cs \in Seq(Blocks) /\ b \in Blocks
    BY <1>2, SplitAt, ElementOfSeq
<1>4. SubSeq(bs, 1, k) = cs \o <<b>>
  <2>1. 1 \in 1 .. Len(bs) /\ k \in 1 .. Len(bs)
      BY <1>1
  <2> QED BY <2>1, SubSeqRecursiveSecond
<1> HIDE DEF cs, b
<1>5. <<b>> \in Seq(Blocks)
    BY <1>3
<1>6. /\ Bytes(cs \o <<b>>) = Bytes(cs) \o Bytes(<<b>>)
      /\ blocklen(cs \o <<b>>) = blocklen(cs) + blocklen(<<b>>)
    BY <1>3, <1>5, BytesConcat, BlockSumsConcat
<1>7. Bytes(<<b>>) = b.data /\ blocklen(<<b>>) = BLEN(b)
    BY <1>3, BytesOfOne, BlockSumsOne
<1> QED BY <1>3, <1>4, <1>6, <1>7 DEF cs, b

(* blocklen counts the bytes.                                              *)
LEMMA BytesLength ==
    ASSUME NEW bs \in Seq(Blocks)
    PROVE  Len(Bytes(bs)) = blocklen(bs)
<1> DEFINE first(k) == SubSeq(bs, 1, k)
           Bad == {k \in 0 .. Len(bs) : Len(Bytes(first(k))) /= blocklen(first(k))}
<1>1. Len(bs) \in Nat
    BY LenProperties
<1>2. first(0) = <<>> /\ first(Len(bs)) = bs
    BY SubSeqEmpty, SubSeqFull
<1>3. ASSUME NEW k \in 1 .. Len(bs)
      PROVE  /\ first(k - 1) \in Seq(Blocks) /\ bs[k] \in Blocks
             /\ Bytes(first(k)) = Bytes(first(k - 1)) \o bs[k].data
             /\ blocklen(first(k)) = blocklen(first(k - 1)) + BLEN(bs[k])
    BY FirstBlocks
<1> HIDE DEF first
<1>4. ASSUME Bad /= {} PROVE FALSE
  <2>1. PICK k \in Bad : \A j \in Bad : k <= j
    <3>1. 0 .. Len(bs) \subseteq Nat
        OBVIOUS
    <3>2. Bad \in SUBSET Nat
        BY <3>1, Zenon
    <3> HIDE DEF Bad
    <3> QED BY <1>4, <3>2, SmallestOf
  <2>2. k /= 0
    <3>1. Len(Bytes(<<>>)) = blocklen(<<>>)
        BY BytesOfNone, BlockSumsEmpty
    <3> QED BY <1>2, <3>1
  <2>3. k \in 1 .. Len(bs) /\ k - 1 \in 0 .. Len(bs) /\ ~(k <= k - 1)
      BY <2>2
  <2>4. Len(Bytes(first(k - 1))) = blocklen(first(k - 1))
      BY <2>1, <2>3
  <2> DEFINE x == Bytes(first(k - 1))
             y == bs[k].data
  <2>5. x \in Seq(Byte) /\ y \in Seq(Byte) /\ Len(y) = BLEN(bs[k]) /\ Bytes(first(k)) = x \o y
      BY <1>3, <2>3, BytesType, BlockParts DEF BLEN
  <2> HIDE DEF x, y
  <2>6. Len(x \o y) = Len(x) + Len(y)
      BY <2>5, ConcatProperties
  <2>7. Len(Bytes(first(k))) = Len(x) + Len(y)
      BY <2>5, <2>6
  <2>8. Len(x) = blocklen(first(k - 1)) /\ blocklen(first(k)) = blocklen(first(k - 1)) + Len(y)
      BY <1>3, <2>3, <2>4, <2>5 DEF x
  <2>9. Len(Bytes(first(k))) = blocklen(first(k))
      BY <2>7, <2>8
  <2> QED BY <2>9
<1>5. Len(bs) \in 0 .. Len(bs)
    BY <1>1
<1>6. Len(Bytes(first(Len(bs)))) = blocklen(first(Len(bs)))
    BY <1>4, <1>5
<1> QED BY <1>2, <1>6

LEMMA NoBytes ==
    ASSUME NEW bs \in Seq(Blocks), blocklen(bs) = 0
    PROVE  Bytes(bs) = <<>>
<1>1. Bytes(bs) \in Seq(Byte) /\ Len(Bytes(bs)) = 0
    BY BytesType, BytesLength
<1> QED BY <1>1, EmptySeq

(* Blocks without bytes.                                                   *)
LEMMA AllEmpty ==
    ASSUME NEW bs \in Seq(Blocks), \A i \in 1 .. Len(bs) : BLEN(bs[i]) = 0
    PROVE  blocklen(bs) = 0
<1> DEFINE f == [i \in 1 .. Len(bs) |-> BLEN(bs[i])]
<1>1. DOMAIN bs = 1 .. Len(bs) /\ IsFiniteSet(1 .. Len(bs))
    BY LenProperties, FS_Interval
<1>2. f \in [1 .. Len(bs) -> Nat] /\ \A i \in 1 .. Len(bs) : ~(f[i] > 0)
    OBVIOUS
<1>3. blocklen(bs) = SumFunction(f)
    BY <1>1 DEF blocklen
<1> HIDE DEF f
<1>4. SumFunction(f) \in Nat
    BY <1>1, <1>2, SumNat
<1>5. ~(SumFunction(f) > 0)
    BY <1>1, <1>2, SumPositive
<1> QED BY <1>3, <1>4, <1>5

-----------------------------------------------------------------------------
(* Which blocks the operations take.                                       *)
LEMMA EmptiesParts ==
    ASSUME blocks \in Seq(Blocks)
    PROVE  /\ Empties \in 0 .. Len(blocks)
           /\ mode /= "coalesce" => Empties = 0
           /\ blocklen(SubSeq(blocks, 1, Empties)) = 0
<1> DEFINE S == {k \in 0 .. Len(blocks) : blocklen(SubSeq(blocks, 1, k)) = 0}
<1>1. Len(blocks) \in Nat
    BY LenProperties
<1>2. blocklen(SubSeq(blocks, 1, 0)) = 0
  <2>1. SubSeq(blocks, 1, 0) = <<>>
      BY SubSeqEmpty
  <2> QED BY <2>1, BlockSumsEmpty
<1>3. 0 \in S
    BY <1>1, <1>2
<1>4. CASE mode /= "coalesce"
    BY <1>1, <1>2, <1>4 DEF Empties
<1>5. CASE mode = "coalesce"
  <2>1. Max(S) \in S
    <3>1. S \in SUBSET (0 .. Len(blocks)) /\ S /= {}
        BY <1>3
    <3> HIDE DEF S
    <3> QED BY <1>1, <3>1, LargestOf
  <2>2. Empties = Max(S)
      BY <1>5 DEF Empties
  <2> QED BY <1>5, <2>1, <2>2
<1> QED BY <1>4, <1>5

LEMMA GrabParts ==
    ASSUME blocks \in Seq(Blocks), Empties < Len(blocks), NEW n \in Nat
    PROVE  /\ Grab(n) \in Empties + 1 .. Len(blocks)
           /\ mode /= "coalesce" => Grab(n) = 1
           /\ Grab(n) = Empties + 1 \/ blocklen(SubSeq(blocks, 1, Grab(n))) <= n
<1> DEFINE T == {k \in 1 .. Len(blocks) : blocklen(SubSeq(blocks, 1, k)) <= n}
           S == {Empties + 1} \cup T
<1>1. Len(blocks) \in Nat /\ Empties \in 0 .. Len(blocks) /\ (mode /= "coalesce" => Empties = 0)
    BY LenProperties, EmptiesParts
<1>2. CASE mode /= "coalesce"
    BY <1>1, <1>2 DEF Grab
<1>3. CASE mode = "coalesce"
  <2>1. Max(S) \in S /\ \A y \in S : y <= Max(S)
    <3>1. S \in SUBSET (0 .. Len(blocks)) /\ S /= {}
        BY <1>1
    <3> HIDE DEF S
    <3> QED BY <1>1, <3>1, LargestOf
  <2>2. Grab(n) = Max(S)
      BY <1>3 DEF Grab
  <2>3. Empties + 1 <= Grab(n)
      BY <2>1, <2>2
  <2>4. Grab(n) = Empties + 1 \/ Grab(n) \in T
      BY <2>1, <2>2
  <2> QED BY <1>1, <1>3, <2>3, <2>4
<1> QED BY <1>2, <1>3

LEMMA CoveredParts ==
    ASSUME blocks \in Seq(Blocks), NEW n \in Nat
    PROVE  /\ Covered(n) \in 0 .. Len(blocks)
           /\ blocklen(SubSeq(blocks, 1, Covered(n))) <= n
           /\ \A k \in 1 .. Len(blocks) :
                /\ blocklen(SubSeq(blocks, 1, k)) <= n
                /\ blocklen(SubSeq(blocks, 1, k - 1)) < n
                => k <= Covered(n)
<1> DEFINE S == {k \in 0 .. Len(blocks) :
                   /\ blocklen(SubSeq(blocks, 1, k)) <= n
                   /\ k > 0 => blocklen(SubSeq(blocks, 1, k - 1)) < n}
<1>1. Len(blocks) \in Nat
    BY LenProperties
<1>2. blocklen(SubSeq(blocks, 1, 0)) = 0
  <2>1. SubSeq(blocks, 1, 0) = <<>>
      BY SubSeqEmpty
  <2> QED BY <2>1, BlockSumsEmpty
<1>3. 0 \in S
    BY <1>1, <1>2
<1>4. Max(S) \in S /\ \A y \in S : y <= Max(S)
  <2>1. S \in SUBSET (0 .. Len(blocks)) /\ S /= {}
      BY <1>3
  <2> HIDE DEF S
  <2> QED BY <1>1, <2>1, LargestOf
<1>5. Covered(n) = Max(S)
    BY DEF Covered
<1>6. ASSUME NEW k \in 1 .. Len(blocks), blocklen(SubSeq(blocks, 1, k)) <= n,
             blocklen(SubSeq(blocks, 1, k - 1)) < n
      PROVE  k \in S
    BY <1>1, <1>6
<1> QED BY <1>4, <1>5, <1>6

(* What is left of a block is a smaller block.                             *)
LEMMA LeftOverParts ==
    ASSUME NEW b \in Blocks, NEW n \in Nat
    PROVE  /\ LeftOver(b, n) \in Seq(Blocks)
           /\ blockalloclen(LeftOver(b, n)) <= b.alloc
           /\ BLEN(b) > n => /\ Dropped(b.data, n) \in Seq(Byte)
                             /\ Len(Dropped(b.data, n)) = BLEN(b) - n
                             /\ LeftOver(b, n) = <<[data |-> Dropped(b.data, n), alloc |-> b.alloc]>>
<1>1. /\ b.data \in Seq(Byte) /\ b.alloc \in Nat /\ BLEN(b) = Len(b.data)
      /\ BLEN(b) \in Nat /\ BLEN(b) <= b.alloc
      /\ b = [data |-> b.data, alloc |-> b.alloc]
    BY BlockParts DEF BLEN, Blocks
<1>2. CASE BLEN(b) > n
  <2> DEFINE d == Dropped(b.data, n)
             c == [data |-> d, alloc |-> b.alloc]
  <2>1. d \in Seq(Byte) /\ Len(d) = BLEN(b) - n
      BY <1>1, <1>2, SplitAt DEF Dropped
  <2>2. LeftOver(b, n) = <<c>>
      BY <1>1, <1>2 DEF LeftOver
  <2> HIDE DEF d
  <2>3. c \in Blocks /\ c.alloc = b.alloc
    <3>1. Len(d) <= b.alloc
        BY <1>1, <1>2, <2>1
    <3> QED BY <1>1, <2>1, <3>1, BlockOf
  <2> HIDE DEF c
  <2>4. blockalloclen(<<c>>) = b.alloc
      BY <2>3, BlockSumsOne
  <2>5. <<c>> \in Seq(Blocks)
      BY <2>3
  <2> QED BY <1>1, <2>1, <2>2, <2>4, <2>5 DEF c, d
<1>3. CASE ~(BLEN(b) > n)
  <2>1. LeftOver(b, n) = <<>>
      BY <1>3 DEF LeftOver
  <2> QED BY <1>1, <1>3, <2>1, BlockSumsEmpty
<1> QED BY <1>2, <1>3

LEMMA PutBackParts ==
    ASSUME hand \in Seq(Blocks), NEW n \in Nat
    PROVE  /\ PutBack(n) \in Seq(Blocks)
           /\ blockalloclen(PutBack(n)) <= blockalloclen(hand)
<1>1. blockalloclen(hand) \in Nat
    BY BlockSums
<1>2. CASE Len(hand) = 1 /\ mode /= "msg"
  <2>1. hand[1] \in Blocks /\ hand = <<hand[1]>>
      BY <1>2
  <2>2. PutBack(n) = LeftOver(hand[1], n)
      BY <1>2 DEF PutBack
  <2>3. blockalloclen(hand) = hand[1].alloc
      BY <2>1, BlockSumsOne
  <2> QED BY <2>1, <2>2, <2>3, LeftOverParts
<1>3. CASE ~(Len(hand) = 1 /\ mode /= "msg")
  <2>1. PutBack(n) = <<>>
      BY <1>3 DEF PutBack
  <2> QED BY <1>1, <2>1, BlockSumsEmpty
<1> QED BY <1>2, <1>3

-----------------------------------------------------------------------------
(* The steps.                                                              *)
LEMMA InitQioInv == QioInit => QioInv
<1> SUFFICES ASSUME QioInit PROVE QioInv
    OBVIOUS
<1> USE DEF QioInit
<1>1. LenAccurate
  <2>1. <<>> \in Seq(Blocks) /\ <<>> \in Seq(Byte)
      OBVIOUS
  <2>2. <<use, mode>> \in Kinds
      BY DEF Kinds
  <2>3. noblock \in BOOLEAN
      OBVIOUS
  <2>5. at \in [Actor -> Pcs]
      BY DEF Pcs
  <2>6. eof \in 0 .. 4 /\ want \in Nat
      OBVIOUS
  <2>4. hand /= <<>> <=> \E r \in Reader : at[r] = "copy"
      BY DEF Actor
  <2> QED BY <2>1, <2>2, <2>3, <2>4, <2>5, <2>6, BlockSumsEmpty DEF LenAccurate, QioTypeOK
<1>2. Roles /\ Ends /\ AboutToSleep /\ SleeperWillBeWoken
    BY DEF Roles, Ends, AboutToSleep, SleeperWillBeWoken, Actor
<1>3. QLocksHeld
    BY QioAssumption DEF QLocksHeld, Actor
<1>4. HandFits
    BY BlockSumsEmpty DEF HandFits
<1> QED BY <1>1, <1>2, <1>3, <1>4 DEF QioInv

LEMMA HalfLimit == Limit \in Nat /\ Limit \div 2 \in Nat /\ Limit \div 2 < Limit /\ Limit > 0
BY QioAssumption

(* Somebody takes or releases a QLock, or tests and goes to sleep.         *)
LEMMA ReadCallQioInv ==
    ASSUME QioInv, NEW r \in Reader, ReadCall(r)
    PROVE  QioInv'
<1> USE DEF ReadCall, Moves, kept, list, reading
<1>1. LenAccurate'
    BY DEF QioInv, LenAccurate, QioTypeOK, Pcs, Actor
<1>2. Roles' /\ Ends'
    BY QioAssumption DEF QioInv, LenAccurate, QioTypeOK, Roles, Ends, Actor
<1>3. QLocksHeld'
    BY QioAssumption DEF QioInv, LenAccurate, QioTypeOK, QLocksHeld, Actor
<1>4. AboutToSleep' /\ SleeperWillBeWoken'
    BY QioAssumption DEF QioInv, LenAccurate, QioTypeOK, AboutToSleep, SleeperWillBeWoken,
        ReaderHasHope, WriterHasHope, notempty, Actor
<1>5. HandFits'
    BY DEF QioInv, HandFits
<1> QED BY <1>1, <1>2, <1>3, <1>4, <1>5 DEF QioInv

LEMMA ReadSleepQioInv ==
    ASSUME QioInv, NEW r \in Reader, ReadSleep(r)
    PROVE  QioInv'
<1> USE DEF ReadSleep, Moves, Released, Wake, kept, list, reading
<1>1. LenAccurate'
    BY DEF QioInv, LenAccurate, QioTypeOK, Pcs, Actor, Other
<1>2. Roles' /\ Ends'
    BY QioAssumption DEF QioInv, LenAccurate, QioTypeOK, Roles, Ends, Actor, Other
<1>3. QLocksHeld'
    BY QioAssumption DEF QioInv, LenAccurate, QioTypeOK, Roles, QLocksHeld, Actor, Other
<1>4. AboutToSleep'
    BY QioAssumption DEF QioInv, LenAccurate, QioTypeOK, Roles, AboutToSleep, notempty, qnotfull, Actor, Other
<1>5. SleeperWillBeWoken'
    BY QioAssumption DEF QioInv, LenAccurate, QioTypeOK, Roles, AboutToSleep, SleeperWillBeWoken,
        ReaderHasHope, WriterHasHope, notempty, qnotfull, Actor, Other
<1>6. HandFits'
    BY DEF QioInv, HandFits
<1> QED BY <1>1, <1>2, <1>3, <1>4, <1>5, <1>6 DEF QioInv

LEMMA ReadInterruptedQioInv ==
    ASSUME QioInv, NEW r \in Reader, QreadInterrupted(r)
    PROVE  QioInv'
<1> USE DEF QreadInterrupted, Moves, Released, Wake, kept, list, reading
<1>1. LenAccurate'
    BY DEF QioInv, LenAccurate, QioTypeOK, Pcs, Actor, Other
<1>2. Roles' /\ Ends'
    BY QioAssumption DEF QioInv, LenAccurate, QioTypeOK, Roles, Ends, Actor, Other
<1>3. QLocksHeld'
    BY QioAssumption DEF QioInv, LenAccurate, QioTypeOK, Roles, QLocksHeld, Actor, Other
<1>4. AboutToSleep'
    BY QioAssumption DEF QioInv, LenAccurate, QioTypeOK, Roles, AboutToSleep, notempty, qnotfull, Actor, Other
<1>5. SleeperWillBeWoken'
    BY QioAssumption DEF QioInv, LenAccurate, QioTypeOK, Roles, AboutToSleep, SleeperWillBeWoken,
        ReaderHasHope, WriterHasHope, notempty, qnotfull, Actor, Other
<1>6. HandFits'
    BY DEF QioInv, HandFits
<1> QED BY <1>1, <1>2, <1>3, <1>4, <1>5, <1>6 DEF QioInv

LEMMA WriteReturnsQioInv ==
    ASSUME QioInv, NEW w \in Writer, WriteReturns(w)
    PROVE  QioInv'
<1> USE DEF WriteReturns, Moves, Released, Wake, kept, list, reading
<1>1. LenAccurate'
    BY DEF QioInv, LenAccurate, QioTypeOK, Pcs, Actor, Other
<1>2. Roles' /\ Ends'
    BY QioAssumption DEF QioInv, LenAccurate, QioTypeOK, Roles, Ends, Actor, Other
<1>3. QLocksHeld'
    BY QioAssumption DEF QioInv, LenAccurate, QioTypeOK, Roles, QLocksHeld, Actor, Other
<1>4. AboutToSleep'
    BY QioAssumption DEF QioInv, LenAccurate, QioTypeOK, Roles, AboutToSleep, notempty, qnotfull, Actor, Other
<1>5. SleeperWillBeWoken'
    BY QioAssumption DEF QioInv, LenAccurate, QioTypeOK, Roles, AboutToSleep, SleeperWillBeWoken,
        ReaderHasHope, WriterHasHope, notempty, qnotfull, Actor, Other
<1>6. HandFits'
    BY DEF QioInv, HandFits
<1> QED BY <1>1, <1>2, <1>3, <1>4, <1>5, <1>6 DEF QioInv

LEMMA WriteFullQioInv ==
    ASSUME QioInv, NEW w \in Writer, WriteFull(w)
    PROVE  QioInv'
<1> USE DEF WriteFull, Moves, Released, Wake, kept, list, reading
<1>1. LenAccurate'
    BY DEF QioInv, LenAccurate, QioTypeOK, Pcs, Actor, Other
<1>2. Roles' /\ Ends'
    BY QioAssumption DEF QioInv, LenAccurate, QioTypeOK, Roles, Ends, Actor, Other
<1>3. QLocksHeld'
    BY QioAssumption DEF QioInv, LenAccurate, QioTypeOK, Roles, QLocksHeld, Actor, Other
<1>4. AboutToSleep'
    BY QioAssumption DEF QioInv, LenAccurate, QioTypeOK, Roles, AboutToSleep, notempty, qnotfull, Actor, Other
<1>5. SleeperWillBeWoken'
    BY QioAssumption DEF QioInv, LenAccurate, QioTypeOK, Roles, AboutToSleep, SleeperWillBeWoken,
        ReaderHasHope, WriterHasHope, notempty, qnotfull, Actor, Other
<1>6. HandFits'
    BY DEF QioInv, HandFits
<1> QED BY <1>1, <1>2, <1>3, <1>4, <1>5, <1>6 DEF QioInv

LEMMA WriteFlowQioInv ==
    ASSUME QioInv, NEW w \in Writer, WriteFlow(w)
    PROVE  QioInv'
<1> USE DEF WriteFlow, Moves, Released, Wake, kept, list, reading
<1>1. LenAccurate'
    BY DEF QioInv, LenAccurate, QioTypeOK, Pcs, Actor, Other
<1>2. Roles' /\ Ends'
    BY QioAssumption DEF QioInv, LenAccurate, QioTypeOK, Roles, Ends, Actor, Other
<1>3. QLocksHeld'
    BY QioAssumption DEF QioInv, LenAccurate, QioTypeOK, Roles, QLocksHeld, Actor, Other
<1>4. AboutToSleep'
    BY QioAssumption DEF QioInv, LenAccurate, QioTypeOK, Roles, AboutToSleep, notempty, qnotfull, Actor, Other
<1>5. SleeperWillBeWoken'
    BY QioAssumption DEF QioInv, LenAccurate, QioTypeOK, Roles, AboutToSleep, SleeperWillBeWoken,
        ReaderHasHope, WriterHasHope, notempty, qnotfull, Actor, Other
<1>6. HandFits'
    BY DEF QioInv, HandFits
<1> QED BY <1>1, <1>2, <1>3, <1>4, <1>5, <1>6 DEF QioInv

LEMMA WriteSleepQioInv ==
    ASSUME QioInv, NEW w \in Writer, WriteSleep(w)
    PROVE  QioInv'
<1> USE DEF WriteSleep, Moves, Released, Wake, kept, list, reading
<1>1. LenAccurate'
    BY DEF QioInv, LenAccurate, QioTypeOK, Pcs, Actor, Other
<1>2. Roles' /\ Ends'
    BY QioAssumption DEF QioInv, LenAccurate, QioTypeOK, Roles, Ends, Actor, Other
<1>3. QLocksHeld'
    BY QioAssumption DEF QioInv, LenAccurate, QioTypeOK, Roles, QLocksHeld, Actor, Other
<1>4. AboutToSleep'
    BY QioAssumption DEF QioInv, LenAccurate, QioTypeOK, Roles, AboutToSleep, notempty, qnotfull, Actor, Other
<1>5. SleeperWillBeWoken'
  <2>1. ReaderHasHope' <=> ReaderHasHope
      BY DEF QioInv, LenAccurate, QioTypeOK, Actor, ReaderHasHope, notempty
  <2>2. (\E r \in Reader : at'[r] = "asleep") => \E r \in Reader : at[r] = "asleep"
      BY QioAssumption DEF QioInv, LenAccurate, QioTypeOK, Actor
  <2>3. WriterHasHope => WriterHasHope'
      BY DEF QioInv, LenAccurate, QioTypeOK, Actor, WriterHasHope
  <2>4. CASE qnotfull
    <3>1. (\E v \in Writer : at'[v] = "asleep") => \E v \in Writer : at[v] = "asleep"
        BY <2>4 DEF QioInv, LenAccurate, QioTypeOK, Actor
    <3> QED BY <2>1, <2>2, <2>3, <3>1 DEF QioInv, SleeperWillBeWoken
  <2>5. CASE ~qnotfull
    <3>1. len \in Nat /\ len >= Limit /\ ~closed /\ blockalloclen(hand) \in Nat
        BY <2>5, HalfLimit, BlockSums DEF QioInv, LenAccurate, QioTypeOK, qnotfull
    <3>2. use /= "uart" => flow
        BY <3>1, HalfLimit DEF QioInv, AboutToSleep
    <3>3. len >= Limit \div 2
        BY <3>1, HalfLimit
    <3>4. use /= "uart" => WriterHasHope'
        BY <3>1, <3>2, <3>3 DEF WriterHasHope
    <3> QED BY <2>1, <2>2, <3>4 DEF QioInv, SleeperWillBeWoken
  <2> QED BY <2>4, <2>5
<1>6. HandFits'
    BY DEF QioInv, HandFits
<1> QED BY <1>1, <1>2, <1>3, <1>4, <1>5, <1>6 DEF QioInv

LEMMA WriteInterruptedQioInv ==
    ASSUME QioInv, NEW w \in Writer, WriteInterrupted(w)
    PROVE  QioInv'
<1> USE DEF WriteInterrupted, Moves, Released, Wake, kept, list, reading
<1>1. LenAccurate'
    BY DEF QioInv, LenAccurate, QioTypeOK, Pcs, Actor, Other
<1>2. Roles' /\ Ends'
    BY QioAssumption DEF QioInv, LenAccurate, QioTypeOK, Roles, Ends, Actor, Other
<1>3. QLocksHeld'
    BY QioAssumption DEF QioInv, LenAccurate, QioTypeOK, Roles, QLocksHeld, Actor, Other
<1>4. AboutToSleep'
    BY QioAssumption DEF QioInv, LenAccurate, QioTypeOK, Roles, AboutToSleep, notempty, qnotfull, Actor, Other
<1>5. SleeperWillBeWoken'
    BY QioAssumption DEF QioInv, LenAccurate, QioTypeOK, Roles, AboutToSleep, SleeperWillBeWoken,
        ReaderHasHope, WriterHasHope, notempty, qnotfull, Actor, Other
<1>6. HandFits'
    BY DEF QioInv, HandFits
<1> QED BY <1>1, <1>2, <1>3, <1>4, <1>5, <1>6 DEF QioInv

LEMMA QproduceFullQioInv ==
    ASSUME QioInv, NEW o \in Other, QproduceFull(o)
    PROVE  QioInv'
<1> USE DEF QproduceFull, Moves, Released, Wake, kept, list, reading
<1>1. LenAccurate'
    BY DEF QioInv, LenAccurate, QioTypeOK, Pcs, Actor, Other
<1>2. Roles' /\ Ends'
    BY QioAssumption DEF QioInv, LenAccurate, QioTypeOK, Roles, Ends, Actor, Other
<1>3. QLocksHeld'
    BY QioAssumption DEF QioInv, LenAccurate, QioTypeOK, Roles, QLocksHeld, Actor, Other
<1>4. AboutToSleep'
    BY QioAssumption DEF QioInv, LenAccurate, QioTypeOK, Roles, AboutToSleep, notempty, qnotfull, Actor, Other
<1>5. SleeperWillBeWoken'
    BY QioAssumption DEF QioInv, LenAccurate, QioTypeOK, Roles, AboutToSleep, SleeperWillBeWoken,
        ReaderHasHope, WriterHasHope, notempty, qnotfull, Actor, Other
<1>6. HandFits'
    BY DEF QioInv, HandFits
<1> QED BY <1>1, <1>2, <1>3, <1>4, <1>5, <1>6 DEF QioInv

LEMMA QhangupQioInv ==
    ASSUME QioInv, NEW o \in Other, Qhangup(o)
    PROVE  QioInv'
<1> USE DEF Qhangup, Moves, Released, Wake, kept, list, reading
<1>1. LenAccurate'
    BY DEF QioInv, LenAccurate, QioTypeOK, Pcs, Actor, Other
<1>2. Roles' /\ Ends'
    BY QioAssumption DEF QioInv, LenAccurate, QioTypeOK, Roles, Ends, Actor, Other
<1>3. QLocksHeld'
    BY QioAssumption DEF QioInv, LenAccurate, QioTypeOK, Roles, QLocksHeld, Actor, Other
<1>4. AboutToSleep'
    BY QioAssumption DEF QioInv, LenAccurate, QioTypeOK, Roles, AboutToSleep, notempty, qnotfull, Actor, Other
<1>5. SleeperWillBeWoken'
    BY QioAssumption DEF QioInv, LenAccurate, QioTypeOK, Roles, AboutToSleep, SleeperWillBeWoken,
        ReaderHasHope, WriterHasHope, notempty, qnotfull, Actor, Other
<1>6. HandFits'
    BY DEF QioInv, HandFits
<1> QED BY <1>1, <1>2, <1>3, <1>4, <1>5, <1>6 DEF QioInv

LEMMA QreopenQioInv ==
    ASSUME QioInv, NEW o \in Other, Qreopen(o)
    PROVE  QioInv'
<1> USE DEF Qreopen, Reopenable, Moves, Released, Wake, kept, list, reading
<1>1. LenAccurate'
  <2>1. {starve', flow', closed', noblock'} \subseteq BOOLEAN
      BY DEF QioInv, LenAccurate, QioTypeOK
  <2>2. eof' \in 0 .. 4
      OBVIOUS
  <2> QED BY <2>1, <2>2 DEF QioInv, LenAccurate, QioTypeOK
<1>2. Roles' /\ Ends'
    BY QioAssumption DEF QioInv, LenAccurate, QioTypeOK, Roles, Ends, Actor, Other
<1>3. QLocksHeld'
    BY QioAssumption DEF QioInv, LenAccurate, QioTypeOK, Roles, QLocksHeld, Actor, Other
<1>4. AboutToSleep'
    BY QioAssumption DEF QioInv, LenAccurate, QioTypeOK, QLocksHeld, Ends, AboutToSleep, notempty, Actor, Other
<1>5. SleeperWillBeWoken'
    BY QioAssumption DEF QioInv, LenAccurate, QioTypeOK, Roles, AboutToSleep, SleeperWillBeWoken,
        ReaderHasHope, WriterHasHope, notempty, qnotfull, Actor, Other
<1>6. HandFits'
    BY DEF QioInv, HandFits
<1> QED BY <1>1, <1>2, <1>3, <1>4, <1>5, <1>6 DEF QioInv

LEMMA WakeupReaderQioInv ==
    ASSUME QioInv, NEW a \in Actor, WakeupReader(a)
    PROVE  QioInv'
<1> USE DEF WakeupReader, Moves, Released, Wake, kept, list, reading
<1>1. LenAccurate'
    BY DEF QioInv, LenAccurate, QioTypeOK, Pcs, Actor, Other
<1>2. Roles' /\ Ends'
    BY QioAssumption DEF QioInv, LenAccurate, QioTypeOK, Roles, Ends, Actor, Other
<1>3. QLocksHeld'
    BY QioAssumption DEF QioInv, LenAccurate, QioTypeOK, Roles, QLocksHeld, Actor, Other
<1>4. AboutToSleep'
    BY QioAssumption DEF QioInv, LenAccurate, QioTypeOK, Roles, AboutToSleep, notempty, qnotfull, Actor, Other
<1>5. SleeperWillBeWoken'
    BY QioAssumption DEF QioInv, LenAccurate, QioTypeOK, Roles, AboutToSleep, SleeperWillBeWoken,
        ReaderHasHope, WriterHasHope, notempty, qnotfull, Actor, Other
<1>6. HandFits'
    BY DEF QioInv, HandFits
<1> QED BY <1>1, <1>2, <1>3, <1>4, <1>5, <1>6 DEF QioInv

LEMMA WakeupWriterQioInv ==
    ASSUME QioInv, NEW a \in Actor, WakeupWriter(a)
    PROVE  QioInv'
<1> USE DEF WakeupWriter, Moves, Released, Wake, kept, list, reading
<1>1. LenAccurate'
    BY DEF QioInv, LenAccurate, QioTypeOK, Pcs, Actor, Other
<1>2. Roles' /\ Ends'
    BY QioAssumption DEF QioInv, LenAccurate, QioTypeOK, Roles, Ends, Actor, Other
<1>3. QLocksHeld'
    BY QioAssumption DEF QioInv, LenAccurate, QioTypeOK, Roles, QLocksHeld, Actor, Other
<1>4. AboutToSleep'
    BY QioAssumption DEF QioInv, LenAccurate, QioTypeOK, Roles, AboutToSleep, notempty, qnotfull, Actor, Other
<1>5. SleeperWillBeWoken'
    BY QioAssumption DEF QioInv, LenAccurate, QioTypeOK, Roles, AboutToSleep, SleeperWillBeWoken,
        ReaderHasHope, WriterHasHope, notempty, qnotfull, Actor, Other
<1>6. HandFits'
    BY DEF QioInv, HandFits
<1> QED BY <1>1, <1>2, <1>3, <1>4, <1>5, <1>6 DEF QioInv

(* A block comes in.                                                       *)
LEMMA AddQioInv ==
    ASSUME QioInv, NEW a \in Actor, at[a] = "idle", NEW d \in Data, NEW next, Add(a, d, next),
           \/ a \in Other /\ next = "idle" /\ wlock' = wlock /\ use \in {"in", "uart"}
           \/ a \in Writer /\ next = "full" /\ wlock = Nobody /\ wlock' = a
                /\ use \in {"pipe", "out", "uart"},
           flow' \in BOOLEAN, flow => flow',
           UNCHANGED <<kept, closed, noblock, eof, rlock, reading>>
    PROVE  QioInv'
<1> USE DEF kept, reading
<1>1. /\ blocks' \in Seq(Blocks) /\ len' \in Nat /\ dlen' \in Nat
      /\ len' = blockalloclen(blocks') /\ dlen' = blocklen(blocks')
      /\ blocks' /= <<>> /\ len <= len'
    BY Added DEF QioInv
<1>2. /\ at' = [at EXCEPT ![a] = IF starve THEN "wakerr" ELSE next]
      /\ starve' = FALSE
    BY DEF Add, Moves
<1>3. at \in [Actor -> Pcs] /\ at' \in [Actor -> Pcs] /\ at'[a] \in {"wakerr", next}
    BY <1>2 DEF QioInv, LenAccurate, QioTypeOK, Pcs
<1>4. \A b \in Actor : b /= a => at'[b] = at[b]
    BY <1>2, <1>3
<1>5. \A r \in Reader : at'[r] = at[r]
    BY <1>4, QioAssumption DEF Actor, Other
<1>6. LenAccurate'
  <2>1. hand' /= <<>> <=> \E r \in Reader : at'[r] = "copy"
      BY <1>5 DEF QioInv, LenAccurate, QioTypeOK
  <2>2. wlock' \in Writer \cup {Nobody}
      BY DEF QioInv, LenAccurate, QioTypeOK
  <2>3. {starve', flow', closed', noblock'} \subseteq BOOLEAN
      BY <1>2 DEF QioInv, LenAccurate, QioTypeOK
  <2> QED BY <1>1, <1>3, <2>1, <2>2, <2>3 DEF QioInv, LenAccurate, QioTypeOK
<1>7. Roles' /\ Ends'
    BY <1>3, <1>4, QioAssumption DEF QioInv, Roles, Ends, Actor, Other
<1>8. QLocksHeld'
  <2>1. \A r \in Reader : at'[r] /= "idle" <=> rlock' = r
      BY <1>5 DEF QioInv, QLocksHeld
  <2>2. ASSUME NEW w \in Writer PROVE at'[w] /= "idle" <=> wlock' = w
      BY <1>3, <1>4, QioAssumption DEF QioInv, QLocksHeld, Actor, Other
  <2> QED BY <2>1, <2>2 DEF QLocksHeld
<1>9. HandFits'
    BY DEF QioInv, HandFits
<1>10. AboutToSleep'
  <2>1. ASSUME NEW w \in Writer, use' /= "uart", at'[w] = "sleep"
        PROVE  flow' \/ closed' \/ len' + blockalloclen(hand') < Limit
    <3>1. a \in Other => use = "in"
        BY <2>1, QioAssumption DEF Other
    <3>2. w /= a /\ wlock = w
        BY <1>3, <1>4, <2>1, QioAssumption DEF QioInv, QLocksHeld, Actor, Other
    <3>3. a \in Other
        BY <3>2, QioAssumption DEF Actor
    <3> QED BY <3>1, <3>2, <3>3, QioAssumption DEF QioInv, Ends, Actor
  <2>2. notempty'
      BY <1>1 DEF notempty
  <2> QED BY <2>1, <2>2 DEF AboutToSleep
<1>11. SleeperWillBeWoken'
  <2>1. ASSUME NEW r \in Reader, at'[r] = "asleep" PROVE ReaderHasHope'
    <3>1. ReaderHasHope
        BY <1>5, <2>1 DEF QioInv, SleeperWillBeWoken
    <3>2. CASE starve
      <4>1. at'[a] = "wakerr"
          BY <1>2, <1>3, <3>2
      <4> QED BY <4>1 DEF ReaderHasHope
    <3>3. CASE ~starve
      <4>1. PICK b \in Actor : at[b] \in {"wakerr", "both"}
          BY <3>1, <3>3 DEF ReaderHasHope
      <4>2. at'[b] \in {"wakerr", "both"}
          BY <1>4, <4>1
      <4> QED BY <4>2 DEF ReaderHasHope
    <3> QED BY <3>2, <3>3
  <2>2. ASSUME NEW w \in Writer, use' /= "uart", at'[w] = "asleep" PROVE WriterHasHope'
    <3>1. w /= a /\ at[w] = "asleep"
        BY <1>3, <1>4, <2>2, QioAssumption DEF Actor, Other
    <3>2. WriterHasHope
        BY <2>2, <3>1 DEF QioInv, SleeperWillBeWoken
    <3>3. CASE \E b \in Actor : at[b] \in {"wakewr", "both"}
      <4>1. PICK b \in Actor : at[b] \in {"wakewr", "both"}
          BY <3>3
      <4>2. at'[b] \in {"wakewr", "both"}
          BY <1>4, <4>1
      <4> QED BY <4>2 DEF WriterHasHope
    <3>4. CASE flow /\ ~closed /\ (len >= Limit \div 2 \/ hand /= <<>>)
      <4>1. flow' /\ ~closed'
          BY <3>4
      <4>2. len >= Limit \div 2 => len' >= Limit \div 2
          BY <1>1, HalfLimit DEF QioInv, LenAccurate, QioTypeOK
      <4> QED BY <3>4, <4>1, <4>2 DEF WriterHasHope
    <3> QED BY <3>2, <3>3, <3>4 DEF WriterHasHope
  <2> QED BY <2>1, <2>2 DEF SleeperWillBeWoken
<1> QED BY <1>6, <1>7, <1>8, <1>9, <1>10, <1>11 DEF QioInv

(* Who restarts the writers: their hope is not lost with the flag.         *)
LEMMA RestartHope ==
    ASSUME QioInv, NEW a \in Actor, NEW below \in {Limit \div 2, Limit},
           RestartBelow(a, below, "idle"), at[a] \notin {"wakewr", "both"},
           len' \in Nat, closed' = closed
    PROVE  /\ at' \in [Actor -> Pcs] /\ flow' \in BOOLEAN
           /\ at'[a] \in {"idle", "wakewr"}
           /\ \A b \in Actor : b /= a => at'[b] = at[b]
           /\ flow' <=> flow /\ len' >= below
           /\ flow => flow' \/ (len' < below /\ at'[a] = "wakewr")
           /\ WriterHasHope /\ (flow' => hand' /= <<>> \/ len' >= Limit \div 2) => WriterHasHope'
<1>1. /\ flow' = (flow /\ len' >= below)
      /\ at' = [at EXCEPT ![a] = IF flow /\ len' < below THEN "wakewr" ELSE "idle"]
    BY DEF RestartBelow, Moves
<1>2. at \in [Actor -> Pcs] /\ flow \in BOOLEAN
    BY DEF QioInv, LenAccurate, QioTypeOK
<1>3. at' \in [Actor -> Pcs] /\ at'[a] \in {"idle", "wakewr"} /\ \A b \in Actor : b /= a => at'[b] = at[b]
    BY <1>1, <1>2 DEF Pcs
<1>4. below \in Nat
    BY HalfLimit
<1>5. flow => flow' \/ (len' < below /\ at'[a] = "wakewr")
  <2>1. len' < below \/ len' >= below
      BY <1>4
  <2>2. flow /\ len' < below => at'[a] = "wakewr"
      BY <1>1, <1>2
  <2>3. flow /\ len' >= below => flow'
      BY <1>1
  <2> QED BY <2>1, <2>2, <2>3
<1>6. ASSUME WriterHasHope, flow' => hand' /= <<>> \/ len' >= Limit \div 2
      PROVE  WriterHasHope'
  <2>1. CASE \E b \in Actor : at[b] \in {"wakewr", "both"}
    <3>1. PICK b \in Actor : at[b] \in {"wakewr", "both"}
        BY <2>1
    <3>2. at'[b] \in {"wakewr", "both"}
        BY <1>3, <3>1
    <3> QED BY <3>2 DEF WriterHasHope
  <2>2. CASE flow /\ ~closed
      BY <1>5, <1>6, <2>2 DEF WriterHasHope
  <2> QED BY <1>6, <2>1, <2>2 DEF WriterHasHope
<1> QED BY <1>1, <1>2, <1>3, <1>5, <1>6

(* An interrupt handler takes bytes.                                       *)
LEMMA TakeQioInv ==
    ASSUME QioInv, NEW o \in Other, at[o] = "idle", use \in {"out", "uart"},
           NEW k \in 0 .. Len(blocks), NEW bs \in Seq(Blocks), Replace(k, bs),
           blockalloclen(bs) <= blockalloclen(SubSeq(blocks, 1, k)),
           NEW below \in {Limit \div 2, Limit}, RestartBelow(o, below, "idle"),
           got' \in Seq(Byte),
           UNCHANGED <<kept, starve, closed, noblock, eof, rlock, wlock, hand, want>>
    PROVE  QioInv'
<1> USE DEF kept
<1>1. /\ blocks' \in Seq(Blocks) /\ len' \in Nat /\ dlen' \in Nat
      /\ len' = blockalloclen(blocks') /\ dlen' = blocklen(blocks')
      /\ len' <= len
  <2>1. /\ blocks' \in Seq(Blocks) /\ len' \in Nat /\ dlen' \in Nat
        /\ len' = blockalloclen(blocks') /\ dlen' = blocklen(blocks')
        /\ blockalloclen(SubSeq(blocks, 1, k)) \in Nat /\ blockalloclen(bs) \in Nat
        /\ len' + blockalloclen(SubSeq(blocks, 1, k)) = len + blockalloclen(bs)
      BY Replaced DEF QioInv
  <2>2. len \in Nat
      BY DEF QioInv, LenAccurate, QioTypeOK
  <2> QED BY <2>1, <2>2
<1>2. o \in Actor /\ at[o] \notin {"wakewr", "both"}
    BY DEF Actor
<1>3. /\ at' \in [Actor -> Pcs] /\ flow' \in BOOLEAN
      /\ at'[o] \in {"idle", "wakewr"}
      /\ \A b \in Actor : b /= o => at'[b] = at[b]
      /\ flow' <=> flow /\ len' >= below
      /\ flow => flow' \/ (len' < below /\ at'[o] = "wakewr")
      /\ WriterHasHope /\ (flow' => hand' /= <<>> \/ len' >= Limit \div 2) => WriterHasHope'
    BY <1>1, <1>2, RestartHope
<1>4. /\ \A r \in Reader : r /= o /\ r \in Actor /\ at'[r] = at[r]
      /\ \A w \in Writer : w /= o /\ w \in Actor /\ at'[w] = at[w]
    BY <1>3, QioAssumption DEF Actor, Other
<1>5. \A r \in Reader : at'[r] = "idle" /\ at[r] = "idle"
    BY <1>4, QioAssumption DEF QioInv, QLocksHeld, Ends, Actor
<1>6. hand = <<>>
    BY <1>5 DEF QioInv, LenAccurate, QioTypeOK
<1>7. LenAccurate'
  <2>1. hand' /= <<>> <=> \E r \in Reader : at'[r] = "copy"
      BY <1>5, <1>6
  <2>2. {starve', flow', closed', noblock'} \subseteq BOOLEAN
      BY <1>3 DEF QioInv, LenAccurate, QioTypeOK
  <2> QED BY <1>1, <1>3, <2>1, <2>2 DEF QioInv, LenAccurate, QioTypeOK
<1>8. Roles' /\ Ends'
    BY <1>3, <1>4, QioAssumption DEF QioInv, Roles, Ends, Actor, Other
<1>9. QLocksHeld'
    BY <1>4 DEF QioInv, QLocksHeld
<1>10. HandFits'
    BY DEF QioInv, HandFits
<1>11. AboutToSleep'
  <2>1. ASSUME NEW w \in Writer, use' /= "uart", at'[w] = "sleep"
        PROVE  flow' \/ closed' \/ len' + blockalloclen(hand') < Limit
    <3>1. flow \/ closed \/ len + blockalloclen(hand) < Limit
        BY <1>4, <2>1 DEF QioInv, AboutToSleep
    <3>2. blockalloclen(hand) = 0 /\ hand' = hand /\ len \in Nat
        BY <1>6, BlockSumsEmpty DEF QioInv, LenAccurate, QioTypeOK
    <3>3. flow => flow' \/ len' < Limit
        BY <1>1, <1>3, HalfLimit
    <3> QED BY <1>1, <3>1, <3>2, <3>3, HalfLimit
  <2> QED BY <1>5, <2>1 DEF AboutToSleep
<1>12. SleeperWillBeWoken'
  <2>1. flow' => len' >= Limit \div 2
      BY <1>1, <1>3, HalfLimit
  <2>2. ASSUME NEW w \in Writer, use' /= "uart", at'[w] = "asleep" PROVE WriterHasHope'
    <3>1. WriterHasHope
        BY <1>4, <2>2 DEF QioInv, SleeperWillBeWoken
    <3> QED BY <1>3, <2>1, <3>1
  <2> QED BY <1>5, <2>2 DEF SleeperWillBeWoken
<1> QED BY <1>7, <1>8, <1>9, <1>10, <1>11, <1>12 DEF QioInv

(* The reader takes blocks off the list, and drops those without bytes.    *)
LEMMA QreadQioInv ==
    ASSUME QioInv, NEW r \in Reader, NEW n \in ReadSize, Qread(r, n)
    PROVE  QioInv'
<1> DEFINE e == Empties
           g == Grab(n)
<1>1. /\ blocks \in Seq(Blocks) /\ Len(blocks) \in Nat /\ n \in Nat /\ r \in Actor
      /\ at \in [Actor -> Pcs] /\ len \in Nat
    BY QioAssumption DEF QioInv, LenAccurate, QioTypeOK, Actor
<1>2. /\ at[r] = "wait" /\ e < Len(blocks) /\ hand' = SubSeq(blocks, e + 1, g) /\ want' = n
      /\ Replace(g, <<>>) /\ at' = [at EXCEPT ![r] = "copy"]
      /\ UNCHANGED <<use, mode, starve, flow, closed, noblock, eof, rlock, wlock, got>>
    BY DEF Qread, Moves, kept
<1>3. /\ e \in 0 .. Len(blocks) /\ blocklen(SubSeq(blocks, 1, e)) = 0
      /\ g \in e + 1 .. Len(blocks)
      /\ g = e + 1 \/ blocklen(SubSeq(blocks, 1, g)) <= n
    BY <1>1, <1>2, EmptiesParts, GrabParts
<1> HIDE DEF e, g
<1>4. g \in 1 .. Len(blocks) /\ e \in 0 .. g - 1 /\ g \in 0 .. Len(blocks)
    BY <1>1, <1>3
<1>5. /\ hand' \in Seq(Blocks) /\ Len(hand') = g - e /\ hand' /= <<>>
      /\ blockalloclen(SubSeq(blocks, 1, g)) = blockalloclen(SubSeq(blocks, 1, e)) + blockalloclen(hand')
      /\ blocklen(SubSeq(blocks, 1, g)) = blocklen(SubSeq(blocks, 1, e)) + blocklen(hand')
      /\ blockalloclen(SubSeq(blocks, 1, e)) \in Nat
      /\ blockalloclen(hand') \in Nat /\ blocklen(hand') \in Nat
  <2> DEFINE cs == SubSeq(blocks, 1, e)
             hs == SubSeq(blocks, e + 1, g)
  <2>1. SubSeq(blocks, 1, g) = cs \o hs
    <3>1. 1 \in 1 .. Len(blocks) + 1 /\ e \in 1 - 1 .. Len(blocks) /\ g \in e .. Len(blocks)
        BY <1>1, <1>3
    <3> QED BY <1>1, <3>1, ConcatAdjacentSubSeq
  <2>2. cs \in Seq(Blocks)
      BY <1>1, <1>3, SplitAt
  <2>3. hs \in Seq(Blocks) /\ Len(hs) = g - e
    <3>1. \A i \in e + 1 .. g : blocks[i] \in Blocks
        BY <1>1, <1>3
    <3>2. /\ hs \in Seq(Blocks)
          /\ Len(hs) = IF e + 1 <= g THEN g - (e + 1) + 1 ELSE 0
        BY <1>3, <3>1, SubSeqProperties
    <3> QED BY <1>1, <1>3, <3>2
  <2> HIDE DEF cs, hs
  <2>4. /\ blockalloclen(cs \o hs) = blockalloclen(cs) + blockalloclen(hs)
        /\ blocklen(cs \o hs) = blocklen(cs) + blocklen(hs)
      BY <2>2, <2>3, BlockSumsConcat
  <2>5. hs /= <<>>
      BY <1>1, <1>3, <2>3
  <2>6. blockalloclen(cs) \in Nat /\ blockalloclen(hs) \in Nat /\ blocklen(hs) \in Nat
      BY <2>2, <2>3, BlockSums
  <2> QED BY <1>2, <2>1, <2>2, <2>3, <2>4, <2>5, <2>6 DEF cs, hs
<1>6. /\ blocks' \in Seq(Blocks) /\ len' \in Nat /\ dlen' \in Nat
      /\ len' = blockalloclen(blocks') /\ dlen' = blocklen(blocks')
      /\ len' + blockalloclen(hand') <= len
  <2>1. <<>> \in Seq(Blocks)
      OBVIOUS
  <2>2. /\ blocks' \in Seq(Blocks) /\ len' \in Nat /\ dlen' \in Nat
        /\ len' = blockalloclen(blocks') /\ dlen' = blocklen(blocks')
        /\ len' + blockalloclen(SubSeq(blocks, 1, g)) = len + blockalloclen(<<>>)
      BY <1>2, <1>4, <2>1, Replaced DEF QioInv
  <2>3. len' + (blockalloclen(SubSeq(blocks, 1, e)) + blockalloclen(hand')) = len
      BY <1>1, <1>5, <2>2, BlockSumsEmpty
  <2> QED BY <1>1, <1>5, <2>2, <2>3, SMTT(30)
<1>7. at' \in [Actor -> Pcs] /\ at'[r] = "copy" /\ \A b \in Actor : b /= r => at'[b] = at[b]
    BY <1>1, <1>2 DEF Pcs
<1>8. /\ \A s \in Reader : s /= r => s \in Actor /\ at[s] = "idle" /\ at'[s] = "idle"
      /\ \A w \in Writer : w /= r /\ w \in Actor /\ at'[w] = at[w]
      /\ \A o \in Other : o /= r /\ o \in Actor /\ at'[o] = at[o]
    BY <1>2, <1>7, QioAssumption DEF QioInv, QLocksHeld, Actor
<1>9. hand = <<>>
    BY <1>2, <1>8 DEF QioInv, LenAccurate, QioTypeOK
<1>10. LenAccurate'
  <2>1. hand' /= <<>> <=> \E s \in Reader : at'[s] = "copy"
      BY <1>5, <1>7
  <2> QED BY <1>1, <1>2, <1>5, <1>6, <1>7, <2>1 DEF QioInv, LenAccurate, QioTypeOK
<1>11. Roles' /\ Ends'
    BY <1>2, <1>7, <1>8 DEF QioInv, Roles, Ends
<1>12. QLocksHeld'
    BY <1>2, <1>7, <1>8 DEF QioInv, QLocksHeld
<1>13. HandFits'
  <2>1. g = e + 1 => Len(hand') = 1
      BY <1>3, <1>4, <1>5
  <2>2. g /= e + 1 => blocklen(hand') <= n
      BY <1>3, <1>5
  <2> QED BY <1>2, <2>1, <2>2 DEF HandFits
<1>14. AboutToSleep'
  <2>1. ASSUME NEW w \in Writer, use' /= "uart", at'[w] = "sleep"
        PROVE  flow' \/ closed' \/ len' + blockalloclen(hand') < Limit
    <3>1. flow \/ closed \/ len + blockalloclen(hand) < Limit
        BY <1>2, <1>8, <2>1 DEF QioInv, AboutToSleep
    <3> QED BY <1>1, <1>2, <1>5, <1>6, <1>9, <3>1, BlockSumsEmpty, HalfLimit, SMTT(30)
  <2> QED BY <1>7, <1>8, <2>1 DEF AboutToSleep
<1>15. SleeperWillBeWoken'
  <2>1. ASSUME NEW w \in Writer, use' /= "uart", at'[w] = "asleep" PROVE WriterHasHope'
    <3>1. WriterHasHope
        BY <1>2, <1>8, <2>1 DEF QioInv, SleeperWillBeWoken
    <3>2. (\E b \in Actor : at[b] \in {"wakewr", "both"}) => \E b \in Actor : at'[b] \in {"wakewr", "both"}
        BY <1>2, <1>7
    <3> QED BY <1>2, <1>5, <3>1, <3>2 DEF WriterHasHope
  <2> QED BY <1>7, <1>8, <2>1 DEF SleeperWillBeWoken
<1> QED BY <1>10, <1>11, <1>12, <1>13, <1>14, <1>15 DEF QioInv

(* A read has its bytes, and puts back what is left of the last block.     *)
LEMMA HasReadQioInv ==
    ASSUME QioInv, NEW r \in Reader, at[r] \in {"wait", "copy"},
           NEW k \in 0 .. Len(blocks), NEW bs \in Seq(Blocks), Replace(k, bs),
           blockalloclen(bs) <= blockalloclen(SubSeq(blocks, 1, k)) + blockalloclen(hand),
           RestartBelow(r, Limit \div 2, "idle"),
           rlock' = IF at'[r] = "idle" THEN Nobody ELSE rlock,
           hand' = <<>>, want' \in Nat, got' \in Seq(Byte),
           UNCHANGED <<kept, starve, closed, noblock, eof, wlock>>
    PROVE  QioInv'
<1> USE DEF kept
<1>1. /\ blocks' \in Seq(Blocks) /\ len' \in Nat /\ dlen' \in Nat
      /\ len' = blockalloclen(blocks') /\ dlen' = blocklen(blocks')
      /\ len' <= len + blockalloclen(hand)
  <2>1. /\ blocks' \in Seq(Blocks) /\ len' \in Nat /\ dlen' \in Nat
        /\ len' = blockalloclen(blocks') /\ dlen' = blocklen(blocks')
        /\ blockalloclen(SubSeq(blocks, 1, k)) \in Nat /\ blockalloclen(bs) \in Nat
        /\ len' + blockalloclen(SubSeq(blocks, 1, k)) = len + blockalloclen(bs)
      BY Replaced DEF QioInv
  <2>2. len \in Nat /\ blockalloclen(hand) \in Nat
      BY BlockSums DEF QioInv, LenAccurate, QioTypeOK
  <2>3. ASSUME NEW l \in Nat, NEW x \in Nat, NEW y \in Nat, NEW z \in Nat, NEW m \in Nat,
               m + x = l + y, y <= x + z
        PROVE  m <= l + z
      BY <2>3
  <2>4. len' <= len + blockalloclen(hand)
    <3> DEFINE x == blockalloclen(SubSeq(blocks, 1, k))
               y == blockalloclen(bs)
               z == blockalloclen(hand)
    <3>1. /\ x \in Nat /\ y \in Nat /\ z \in Nat /\ len \in Nat /\ len' \in Nat
          /\ len' + x = len + y /\ y <= x + z
        BY <2>1, <2>2
    <3> HIDE DEF x, y, z
    <3>2. len' <= len + z
        BY <2>3, <3>1
    <3> QED BY <3>2 DEF z
  <2> QED BY <2>1, <2>4
<1>2. r \in Actor /\ at[r] \notin {"wakewr", "both"}
    BY DEF Actor
<1>3. /\ at' \in [Actor -> Pcs] /\ flow' \in BOOLEAN
      /\ at'[r] \in {"idle", "wakewr"}
      /\ \A b \in Actor : b /= r => at'[b] = at[b]
      /\ flow' <=> flow /\ len' >= Limit \div 2
      /\ flow => flow' \/ (len' < Limit \div 2 /\ at'[r] = "wakewr")
      /\ WriterHasHope /\ (flow' => hand' /= <<>> \/ len' >= Limit \div 2) => WriterHasHope'
    BY <1>1, <1>2, RestartHope
<1>4. /\ \A s \in Reader : s /= r => s \in Actor /\ at[s] = "idle" /\ at'[s] = "idle"
      /\ \A w \in Writer : w /= r /\ w \in Actor /\ at'[w] = at[w]
      /\ \A o \in Other : o /= r /\ o \in Actor /\ at'[o] = at[o]
    BY <1>3, QioAssumption DEF QioInv, QLocksHeld, Actor
<1>5. LenAccurate'
  <2>1. hand' /= <<>> <=> \E s \in Reader : at'[s] = "copy"
      BY <1>3, <1>4
  <2>2. {starve', flow', closed', noblock'} \subseteq BOOLEAN
      BY <1>3 DEF QioInv, LenAccurate, QioTypeOK
  <2>3. hand' \in Seq(Blocks) /\ rlock' \in Reader \cup {Nobody}
      BY DEF QioInv, LenAccurate, QioTypeOK
  <2> QED BY <1>1, <1>3, <2>1, <2>2, <2>3 DEF QioInv, LenAccurate, QioTypeOK
<1>6. Roles' /\ Ends'
    BY <1>3, <1>4 DEF QioInv, Roles, Ends
<1>7. QLocksHeld'
    BY <1>3, <1>4, QioAssumption DEF QioInv, QLocksHeld, Actor
<1>8. HandFits'
    BY BlockSumsEmpty DEF HandFits
<1>9. AboutToSleep'
  <2>1. ASSUME NEW w \in Writer, use' /= "uart", at'[w] = "sleep"
        PROVE  flow' \/ closed' \/ len' + blockalloclen(hand') < Limit
    <3>1. flow \/ closed \/ len + blockalloclen(hand) < Limit
        BY <1>4, <2>1 DEF QioInv, AboutToSleep
    <3>2. len \in Nat /\ blockalloclen(hand) \in Nat
        BY BlockSums DEF QioInv, LenAccurate, QioTypeOK
    <3>3. flow => flow' \/ len' < Limit
        BY <1>1, <1>3, HalfLimit
    <3>4. len + blockalloclen(hand) < Limit => len' < Limit
        BY <1>1, <3>2, HalfLimit
    <3>5. len' < Limit => len' + blockalloclen(hand') < Limit
        BY <1>1, BlockSumsEmpty
    <3> QED BY <3>1, <3>3, <3>4, <3>5
  <2> QED BY <1>3, <1>4, <2>1 DEF AboutToSleep
<1>10. SleeperWillBeWoken'
  <2>2. ASSUME NEW w \in Writer, use' /= "uart", at'[w] = "asleep" PROVE WriterHasHope'
    <3>1. WriterHasHope
        BY <1>4, <2>2 DEF QioInv, SleeperWillBeWoken
    <3> QED BY <1>3, <3>1
  <2> QED BY <1>3, <1>4, <2>2 DEF SleeperWillBeWoken
<1> QED BY <1>5, <1>6, <1>7, <1>8, <1>9, <1>10 DEF QioInv

LEMMA SmallerParts ==
    ASSUME NEW m \in Nat, NEW n \in Nat
    PROVE  Smaller(m, n) \in 0 .. n /\ (m >= n => Smaller(m, n) = n) /\ (m <= n => Smaller(m, n) = m)
BY DEF Smaller

(* The first bytes of some.                                                *)
LEMMA FirstBytes ==
    ASSUME NEW d \in Seq(Byte), NEW n \in Nat
    PROVE  SubSeq(d, 1, Smaller(n, Len(d))) \in Seq(Byte)
<1>1. Len(d) \in Nat
    BY LenProperties
<1>2. Smaller(n, Len(d)) \in 0 .. Len(d)
    BY <1>1, SmallerParts
<1> QED BY <1>2, SplitAt

LEMMA QreadCopyQioInv ==
    ASSUME QioInv, NEW r \in Reader, QreadCopy(r)
    PROVE  QioInv'
<1>1. hand \in Seq(Blocks) /\ want \in Nat /\ blocks \in Seq(Blocks)
    BY DEF QioInv, LenAccurate, QioTypeOK
<1>2. /\ PutBack(want) \in Seq(Blocks)
      /\ blockalloclen(PutBack(want)) <= blockalloclen(hand)
    BY <1>1, PutBackParts
<1>3. got' \in Seq(Byte)
  <2>1. Bytes(hand) \in Seq(Byte) /\ Len(Bytes(hand)) = blocklen(hand)
      BY <1>1, BytesType, BytesLength
  <2>2. got' = SubSeq(Bytes(hand), 1, Smaller(want, blocklen(hand)))
      BY DEF QreadCopy
  <2> QED BY <1>1, <2>1, <2>2, FirstBytes
<1>4. 0 \in 0 .. Len(blocks) /\ blockalloclen(SubSeq(blocks, 1, 0)) = 0
  <2>1. SubSeq(blocks, 1, 0) = <<>>
      BY SubSeqEmpty
  <2>2. 0 \in 0 .. Len(blocks)
      BY <1>1, LenProperties
  <2>3. blockalloclen(SubSeq(blocks, 1, 0)) = blockalloclen(<<>>)
      BY <2>1
  <2> QED BY <2>2, <2>3, BlockSumsEmpty
<1>5. blockalloclen(PutBack(want)) <= blockalloclen(SubSeq(blocks, 1, 0)) + blockalloclen(hand)
    BY <1>1, <1>2, <1>4, BlockSums
<1>6. /\ at[r] \in {"wait", "copy"} /\ Replace(0, PutBack(want))
      /\ RestartBelow(r, Limit \div 2, "idle")
      /\ rlock' = IF at'[r] = "idle" THEN Nobody ELSE rlock
      /\ hand' = <<>> /\ want' \in Nat
      /\ UNCHANGED <<kept, starve, closed, noblock, eof, wlock>>
    BY DEF QreadCopy
<1> QED BY <1>2, <1>3, <1>4, <1>5, <1>6, HasReadQioInv

LEMMA HeadParts ==
    ASSUME blocks \in Seq(Blocks), blocks /= <<>>
    PROVE  /\ Head(blocks) \in Blocks /\ Head(blocks) = blocks[1]
           /\ 1 \in 0 .. Len(blocks) /\ 1 \in 1 .. Len(blocks)
           /\ SubSeq(blocks, 1, 1) = <<Head(blocks)>>
           /\ blockalloclen(SubSeq(blocks, 1, 1)) = Head(blocks).alloc
<1>1. Head(blocks) \in Blocks /\ Head(blocks) = blocks[1] /\ Len(blocks) \in Nat \ {0}
    BY HeadTailProperties, EmptySeq
<1>2. 1 \in 0 .. Len(blocks) /\ 1 \in 1 .. Len(blocks)
    BY <1>1
<1>3. SubSeq(blocks, 1, 1) = SubSeq(blocks, 1, 1 - 1) \o <<blocks[1]>> /\ SubSeq(blocks, 1, 1 - 1) = <<>>
    BY <1>2, FirstBlocks, SubSeqEmpty
<1>4. SubSeq(blocks, 1, 1) = <<Head(blocks)>>
  <2>1. <<Head(blocks)>> \in Seq(Blocks)
      BY <1>1
  <2>2. <<>> \o <<Head(blocks)>> = <<Head(blocks)>>
      BY <2>1, ConcatEmptySeq
  <2> QED BY <1>1, <1>3, <2>2
<1> QED BY <1>1, <1>2, <1>4, BlockSumsOne

LEMMA QbreadQioInv ==
    ASSUME QioInv, NEW r \in Reader, NEW n \in ReadSize, Qbread(r, n)
    PROVE  QioInv'
<1> DEFINE d == Head(blocks).data
           bs == IF Len(d) > n /\ mode /= "msg" THEN <<Block(Dropped(d, n))>> ELSE <<>>
<1>1. hand \in Seq(Blocks) /\ blocks \in Seq(Blocks) /\ n \in Nat \ {0} /\ want \in Nat
    BY QioAssumption DEF QioInv, LenAccurate, QioTypeOK
<1>2. /\ at[r] = "wait" /\ blocks /= <<>>
      /\ got' = SubSeq(d, 1, Smaller(n, Len(d)))
      /\ Replace(1, bs)
      /\ RestartBelow(r, Limit \div 2, "idle")
      /\ rlock' = IF at'[r] = "idle" THEN Nobody ELSE rlock
      /\ UNCHANGED <<kept, starve, closed, noblock, eof, wlock, hand, want>>
    BY DEF Qbread
<1>3. /\ Head(blocks) \in Blocks /\ 1 \in 0 .. Len(blocks)
      /\ blockalloclen(SubSeq(blocks, 1, 1)) = Head(blocks).alloc
    BY <1>1, <1>2, HeadParts
<1>4. d \in Seq(Byte) /\ Len(d) \in Nat /\ Head(blocks).alloc \in Nat /\ Len(d) <= Head(blocks).alloc
    BY <1>3, BlockParts DEF BLEN
<1> HIDE DEF d
<1>5. bs \in Seq(Blocks) /\ blockalloclen(bs) <= Head(blocks).alloc
  <2>1. CASE Len(d) > n /\ mode /= "msg"
    <3> DEFINE x == Dropped(d, n)
    <3>1. x \in Seq(Byte) /\ Len(x) = Len(d) - n
        BY <1>1, <1>4, <2>1, SplitAt DEF Dropped
    <3> HIDE DEF x
    <3>2. Block(x) \in Blocks /\ Block(x).alloc = Len(x) + 1
        BY <3>1, NewBlock
    <3>3. <<Block(x)>> \in Seq(Blocks) /\ blockalloclen(<<Block(x)>>) = Len(x) + 1
        BY <3>2, BlockSumsOne
    <3>4. Len(x) + 1 <= Head(blocks).alloc
        BY <1>1, <1>4, <2>1, <3>1
    <3> QED BY <2>1, <3>3, <3>4 DEF x
  <2>2. CASE ~(Len(d) > n /\ mode /= "msg")
    <3>1. bs = <<>>
        BY <2>2
    <3>2. <<>> \in Seq(Blocks)
        OBVIOUS
    <3> QED BY <1>4, <3>1, <3>2, BlockSumsEmpty
  <2> QED BY <2>1, <2>2
<1> HIDE DEF bs
<1>6. hand = <<>>
    BY <1>2, QioAssumption DEF QioInv, QLocksHeld, LenAccurate, QioTypeOK, Actor
<1>7. got' \in Seq(Byte)
    BY <1>1, <1>2, <1>4, FirstBytes
<1>8. blockalloclen(bs) <= blockalloclen(SubSeq(blocks, 1, 1)) + blockalloclen(hand)
    BY <1>3, <1>4, <1>5, <1>6, BlockSumsEmpty, BlockSums
<1>9. hand' = <<>> /\ want' \in Nat
    BY <1>1, <1>2, <1>6
<1> QED BY <1>2, <1>3, <1>5, <1>7, <1>8, <1>9, HasReadQioInv

(* All blocks are dropped.                                                 *)
LEMMA AllReplaced ==
    ASSUME LenAccurate, Replace(Len(blocks), <<>>)
    PROVE  blocks' = <<>> /\ len' = 0 /\ dlen' = 0
<1>1. <<>> \in Seq(Blocks) /\ blocks \in Seq(Blocks)
    BY DEF LenAccurate, QioTypeOK
<1>2. Len(blocks) \in Nat /\ Len(blocks) \in 0 .. Len(blocks)
    BY <1>1, LenProperties
<1>3. blocks' = <<>> \o Dropped(blocks, Len(blocks)) /\ len' = blockalloclen(blocks') /\ dlen' = blocklen(blocks')
    BY <1>1, <1>2, Replaced
<1>4. Dropped(blocks, Len(blocks)) = <<>>
    BY <1>2, SubSeqEmpty DEF Dropped
<1>5. blocks' = <<>>
    BY <1>3, <1>4
<1> QED BY <1>3, <1>5, BlockSumsEmpty

LEMMA QwaitClosedQioInv ==
    ASSUME QioInv, NEW r \in Reader, QwaitClosed(r)
    PROVE  QioInv'
<1>1. blocks' = <<>> /\ len' = 0 /\ dlen' = 0
    BY AllReplaced DEF QioInv, QwaitClosed
<1>2. /\ at[r] = "wait" /\ closed /\ eof' = Smaller(eof + 1, 4)
      /\ rlock' = Nobody /\ got' \in {Eof, Hungup} /\ at' = [at EXCEPT ![r] = "idle"]
      /\ UNCHANGED <<use, mode, starve, flow, closed, noblock, wlock, hand, want>>
    BY DEF QwaitClosed, ReadReturns, Moves, kept
<1>3. /\ at' \in [Actor -> Pcs] /\ at'[r] = "idle" /\ r \in Actor
      /\ \A b \in Actor : b /= r => at'[b] = at[b]
    BY <1>2 DEF QioInv, LenAccurate, QioTypeOK, Pcs, Actor
<1>4. /\ \A s \in Reader : s /= r => s \in Actor /\ at[s] = "idle" /\ at'[s] = "idle"
      /\ \A w \in Writer : w /= r /\ w \in Actor /\ at'[w] = at[w]
      /\ \A o \in Other : o /= r /\ o \in Actor /\ at'[o] = at[o]
    BY <1>2, <1>3, QioAssumption DEF QioInv, QLocksHeld, Actor
<1>5. hand = <<>>
    BY <1>2, <1>4 DEF QioInv, LenAccurate, QioTypeOK
<1>6. LenAccurate'
  <2>1. eof' \in 0 .. 4
    <3>1. eof + 1 \in Nat
        BY DEF QioInv, LenAccurate, QioTypeOK
    <3> QED BY <1>2, <3>1, SmallerParts
  <2>2. hand' /= <<>> <=> \E s \in Reader : at'[s] = "copy"
      BY <1>2, <1>3, <1>4, <1>5
  <2>3. blocks' \in Seq(Blocks) /\ len' = blockalloclen(blocks') /\ dlen' = blocklen(blocks')
      BY <1>1, BlockSumsEmpty
  <2> QED BY <1>1, <1>2, <1>3, <2>1, <2>2, <2>3 DEF QioInv, LenAccurate, QioTypeOK
<1>7. Roles' /\ Ends'
    BY <1>2, <1>3, <1>4 DEF QioInv, Roles, Ends
<1>8. QLocksHeld'
    BY <1>2, <1>3, <1>4, QioAssumption DEF QioInv, QLocksHeld, Actor
<1>9. HandFits'
    BY <1>2 DEF QioInv, HandFits
<1>10. AboutToSleep'
    BY <1>2, <1>3, <1>4 DEF AboutToSleep, notempty
<1>11. SleeperWillBeWoken'
  <2>1. ASSUME NEW w \in Writer, use' /= "uart", at'[w] = "asleep" PROVE WriterHasHope'
    <3>1. WriterHasHope
        BY <1>2, <1>4, <2>1 DEF QioInv, SleeperWillBeWoken
    <3>2. PICK b \in Actor : at[b] \in {"wakewr", "both"}
        BY <1>2, <3>1 DEF WriterHasHope
    <3>3. at'[b] \in {"wakewr", "both"}
        BY <1>2, <1>3, <3>2
    <3> QED BY <3>3 DEF WriterHasHope
  <2> QED BY <1>3, <1>4, <2>1 DEF SleeperWillBeWoken
<1> QED BY <1>6, <1>7, <1>8, <1>9, <1>10, <1>11 DEF QioInv

LEMMA QwaitEmptyQioInv ==
    ASSUME QioInv, NEW r \in Reader, QwaitEmpty(r)
    PROVE  QioInv'
<1>1. blocks' = <<>> /\ len' = 0 /\ dlen' = 0
    BY AllReplaced DEF QioInv, QwaitEmpty
<1>2. /\ at[r] = "wait" /\ ~closed /\ starve' = TRUE /\ at' = [at EXCEPT ![r] = "sleep"]
      /\ Empties = Len(blocks)
      /\ UNCHANGED <<use, mode, flow, closed, noblock, eof, rlock, wlock, hand, want, got>>
    BY DEF QwaitEmpty, Moves, kept, reading
<1>3. /\ at' \in [Actor -> Pcs] /\ at'[r] = "sleep" /\ r \in Actor
      /\ \A b \in Actor : b /= r => at'[b] = at[b]
    BY <1>2 DEF QioInv, LenAccurate, QioTypeOK, Pcs, Actor
<1>4. /\ \A s \in Reader : s /= r => s \in Actor /\ at[s] = "idle" /\ at'[s] = "idle"
      /\ \A w \in Writer : w /= r /\ w \in Actor /\ at'[w] = at[w]
      /\ \A o \in Other : o /= r /\ o \in Actor /\ at'[o] = at[o]
    BY <1>2, <1>3, QioAssumption DEF QioInv, QLocksHeld, Actor
<1>5. hand = <<>>
    BY <1>2, <1>4 DEF QioInv, LenAccurate, QioTypeOK
<1>6. LenAccurate'
  <2>1. {starve', flow', closed', noblock'} \subseteq BOOLEAN
      BY <1>2 DEF QioInv, LenAccurate, QioTypeOK
  <2>2. hand' /= <<>> <=> \E s \in Reader : at'[s] = "copy"
      BY <1>2, <1>3, <1>4, <1>5
  <2>3. blocks' \in Seq(Blocks) /\ len' = blockalloclen(blocks') /\ dlen' = blocklen(blocks')
      BY <1>1, BlockSumsEmpty
  <2> QED BY <1>1, <1>2, <1>3, <2>1, <2>2, <2>3 DEF QioInv, LenAccurate, QioTypeOK
<1>7. Roles' /\ Ends'
    BY <1>2, <1>3, <1>4 DEF QioInv, Roles, Ends
<1>8. QLocksHeld'
    BY <1>2, <1>3, <1>4, QioAssumption DEF QioInv, QLocksHeld, Actor
<1>9. HandFits'
    BY <1>2 DEF QioInv, HandFits
<1>10. blockalloclen(hand') = 0 /\ Limit > 0 /\ len' + blockalloclen(hand') < Limit
    BY <1>1, <1>2, <1>5, BlockSumsEmpty, HalfLimit
<1>11. AboutToSleep'
    BY <1>2, <1>3, <1>4, <1>10 DEF AboutToSleep
(* Only when it coalesces may there have been blocks, and then there are   *)
(* no writers.                                                             *)
<1>12. SleeperWillBeWoken'
  <2>1. ASSUME NEW w \in Writer, use' /= "uart", at'[w] = "asleep" PROVE WriterHasHope'
    <3>1. WriterHasHope
        BY <1>2, <1>4, <2>1 DEF QioInv, SleeperWillBeWoken
    <3>2. mode /= "coalesce"
        BY <1>4, <2>1, QioAssumption DEF QioInv, QLocksHeld, Ends, LenAccurate, QioTypeOK, Kinds, Actor
    <3>3. blocks \in Seq(Blocks) /\ blocks = <<>>
        BY <1>2, <3>2, EmptiesParts, EmptySeq DEF QioInv, LenAccurate, QioTypeOK
    <3>4. len = len'
        BY <1>1, <3>3, BlockSumsEmpty DEF QioInv, LenAccurate
    <3>5. (\E b \in Actor : at[b] \in {"wakewr", "both"}) => \E b \in Actor : at'[b] \in {"wakewr", "both"}
        BY <1>2, <1>3
    <3> QED BY <1>2, <3>1, <3>4, <3>5 DEF WriterHasHope
  <2> QED BY <1>3, <1>4, <2>1 DEF SleeperWillBeWoken, ReaderHasHope, notempty
<1> QED BY <1>6, <1>7, <1>8, <1>9, <1>11, <1>12 DEF QioInv

(* qclose and qflush throw everything away, and wake whoever sleeps.       *)
LEMMA EmptiedQioInv ==
    ASSUME QioInv, NEW o \in Other, at[o] = "idle", Emptied,
           \/ at' = [at EXCEPT ![o] = "both"] /\ closed' = TRUE /\ starve' \in BOOLEAN
           \/ /\ at' = [at EXCEPT ![o] = "wakewr"] /\ closed' = closed /\ starve' = starve
              /\ flow' = flow /\ (use = "uart" \/ (use = "in" /\ closed)),
           flow' \in BOOLEAN, noblock' \in BOOLEAN,
           UNCHANGED <<kept, eof, rlock, wlock, reading>>
    PROVE  QioInv'
<1> USE DEF kept, reading
<1>1. blocks' = <<>> /\ len' = 0 /\ dlen' = 0
    BY DEF Emptied
<1>2. /\ at \in [Actor -> Pcs] /\ at' \in [Actor -> Pcs] /\ at'[o] \in {"both", "wakewr"} /\ o \in Actor
      /\ \A b \in Actor : b /= o => at'[b] = at[b]
    BY DEF QioInv, LenAccurate, QioTypeOK, Pcs, Actor
<1>3. /\ \A s \in Reader : s /= o /\ s \in Actor /\ at'[s] = at[s]
      /\ \A w \in Writer : w /= o /\ w \in Actor /\ at'[w] = at[w]
      /\ \A q \in Other : q /= o => q \in Actor /\ at'[q] = at[q]
    BY <1>2, QioAssumption DEF Actor
<1>4. {starve', flow', closed', noblock'} \subseteq BOOLEAN
    BY DEF QioInv, LenAccurate, QioTypeOK
<1>5. LenAccurate'
  <2>1. hand' /= <<>> <=> \E s \in Reader : at'[s] = "copy"
      BY <1>3 DEF QioInv, LenAccurate, QioTypeOK
  <2>2. blocks' \in Seq(Blocks) /\ len' = blockalloclen(blocks') /\ dlen' = blocklen(blocks')
      BY <1>1, BlockSumsEmpty
  <2> QED BY <1>1, <1>2, <1>4, <2>1, <2>2 DEF QioInv, LenAccurate, QioTypeOK
<1>6. Roles' /\ Ends'
    BY <1>2, <1>3 DEF QioInv, Roles, Ends
<1>7. QLocksHeld'
    BY <1>3 DEF QioInv, QLocksHeld
<1>8. HandFits'
    BY DEF QioInv, HandFits
<1>9. CASE at'[o] = "both"
  <2>1. closed'
      BY <1>2, <1>9
  <2>2. AboutToSleep'
      BY <2>1 DEF AboutToSleep, notempty
  <2>3. SleeperWillBeWoken'
      BY <1>2, <1>9 DEF SleeperWillBeWoken, ReaderHasHope, WriterHasHope
  <2> QED BY <1>5, <1>6, <1>7, <1>8, <2>2, <2>3 DEF QioInv
<1>10. CASE at'[o] = "wakewr"
  <2>1. /\ closed' = closed /\ starve' = starve /\ flow' = flow
        /\ (use = "uart" \/ (use = "in" /\ closed))
      BY <1>2, <1>10
  <2>2. \A s \in Reader : use = "uart" => at[s] = "idle" /\ at'[s] = "idle"
      BY <1>3, QioAssumption DEF QioInv, QLocksHeld, Ends, Actor
  <2>3. AboutToSleep'
    <3>1. \A s \in Reader : at'[s] = "sleep" => notempty'
        BY <2>1, <2>2 DEF notempty
    <3>2. ASSUME NEW w \in Writer, use' /= "uart" PROVE closed'
        BY <2>1, <3>2
    <3> QED BY <3>1, <3>2 DEF AboutToSleep
  <2>4. SleeperWillBeWoken'
    <3>1. WriterHasHope'
        BY <1>2, <1>10 DEF WriterHasHope
    <3>2. ASSUME NEW s \in Reader, at'[s] = "asleep" PROVE ReaderHasHope'
      <4>1. closed /\ ReaderHasHope
          BY <1>3, <2>1, <2>2, <3>2 DEF QioInv, SleeperWillBeWoken
      <4>2. PICK b \in Actor : at[b] \in {"wakerr", "both"}
          BY <4>1 DEF ReaderHasHope, notempty
      <4>3. at'[b] \in {"wakerr", "both"}
          BY <1>2, <4>2
      <4> QED BY <4>3 DEF ReaderHasHope
    <3> QED BY <3>1, <3>2 DEF SleeperWillBeWoken
  <2> QED BY <1>5, <1>6, <1>7, <1>8, <2>3, <2>4 DEF QioInv
<1> QED BY <1>2, <1>9, <1>10

LEMMA QcloseQioInv ==
    ASSUME QioInv, NEW o \in Other, Qclose(o)
    PROVE  QioInv'
BY EmptiedQioInv DEF Qclose, Moves

LEMMA QflushQioInv ==
    ASSUME QioInv, NEW o \in Other, Qflush(o)
    PROVE  QioInv'
<1>1. flow' \in BOOLEAN /\ noblock' \in BOOLEAN
    BY DEF Qflush, QioInv, LenAccurate, QioTypeOK
<1> QED BY <1>1, EmptiedQioInv DEF Qflush, Moves

LEMMA ConsumeNothingQioInv ==
    ASSUME QioInv, NEW o \in Other, ConsumeNothing(o)
    PROVE  QioInv'
<1>1. blocks' = <<>> /\ len' = 0 /\ dlen' = 0
    BY AllReplaced DEF QioInv, ConsumeNothing
<1>2. /\ starve' = TRUE
      /\ use \in {"out", "uart"} /\ (use = "out" => blocks = <<>>)
      /\ UNCHANGED <<use, mode, flow, closed, noblock, eof, rlock, wlock, at, hand, want, got>>
    BY DEF ConsumeNothing, kept, reading
<1>3. \A s \in Reader : at[s] = "idle"
    BY <1>2, QioAssumption DEF QioInv, QLocksHeld, Ends, Actor
<1>4. LenAccurate'
  <2>1. {starve', flow', closed', noblock'} \subseteq BOOLEAN
      BY <1>2 DEF QioInv, LenAccurate, QioTypeOK
  <2>2. blocks' \in Seq(Blocks) /\ len' = blockalloclen(blocks') /\ dlen' = blocklen(blocks')
      BY <1>1, BlockSumsEmpty
  <2> QED BY <1>1, <1>2, <2>1, <2>2 DEF QioInv, LenAccurate, QioTypeOK
<1>5. Roles' /\ Ends' /\ QLocksHeld' /\ HandFits'
    BY <1>2 DEF QioInv, Roles, Ends, QLocksHeld, HandFits
<1>6. use /= "uart" => len' = len
    BY <1>1, <1>2, BlockSumsEmpty DEF QioInv, LenAccurate
<1>7. AboutToSleep'
    BY <1>2, <1>3, <1>6 DEF QioInv, AboutToSleep
<1>8. SleeperWillBeWoken'
    BY <1>2, <1>3, <1>6 DEF QioInv, SleeperWillBeWoken, WriterHasHope
<1> QED BY <1>4, <1>5, <1>7, <1>8 DEF QioInv

(* The producers ...                                                       *)
LEMMA QbwriteQioInv ==
    ASSUME QioInv, NEW w \in Writer, NEW d \in Data, Qbwrite(w, d)
    PROVE  QioInv'
<1>1. /\ w \in Actor /\ at[w] = "idle" /\ Add(w, d, "full")
      /\ w \in Writer /\ wlock = Nobody /\ wlock' = w /\ use \in {"pipe", "out", "uart"}
      /\ UNCHANGED <<kept, closed, noblock, eof, rlock, reading>> /\ flow' = flow
    BY DEF Qbwrite, Actor
<1>2. flow' \in BOOLEAN
    BY <1>1 DEF QioInv, LenAccurate, QioTypeOK
<1> QED BY <1>1, <1>2, AddQioInv

LEMMA HandlerAddsQioInv ==
    ASSUME QioInv, NEW o \in Other, NEW d \in Data,
           Qproduce(o, d) \/ Qpass(o, d) \/ Qiwrite(o, d)
    PROVE  QioInv'
<1>1. /\ o \in Actor /\ at[o] = "idle" /\ Add(o, d, "idle")
      /\ wlock' = wlock /\ use \in {"in", "uart"}
      /\ UNCHANGED <<kept, closed, noblock, eof, rlock, reading>>
    BY DEF Qproduce, Qpass, Qiwrite, Actor
<1>2. flow \in BOOLEAN
    BY DEF QioInv, LenAccurate, QioTypeOK
<1>3. flow' \in BOOLEAN /\ (flow => flow')
  <2>1. CASE Qproduce(o, d)
      BY <1>2, <2>1 DEF Qproduce
  <2>2. CASE Qpass(o, d)
      BY <1>2, <2>2 DEF Qpass
  <2>3. CASE Qiwrite(o, d)
      BY <1>2, <2>3 DEF Qiwrite
  <2> QED BY <2>1, <2>2, <2>3
<1> QED BY <1>1, <1>3, AddQioInv

(* ... and the consumers.                                                  *)
LEMMA QgetQioInv ==
    ASSUME QioInv, NEW o \in Other, Qget(o)
    PROVE  QioInv'
<1>1. /\ at[o] = "idle" /\ use \in {"out", "uart"} /\ blocks /= <<>>
      /\ got' = Head(blocks).data /\ Replace(1, <<>>)
      /\ RestartBelow(o, Limit \div 2, "idle")
      /\ UNCHANGED <<kept, starve, closed, noblock, eof, rlock, wlock, hand, want>>
    BY DEF Qget
<1>2. blocks \in Seq(Blocks) /\ <<>> \in Seq(Blocks)
    BY DEF QioInv, LenAccurate, QioTypeOK
<1>3. Head(blocks) \in Blocks /\ 1 \in 0 .. Len(blocks)
    BY <1>1, <1>2, HeadParts
<1>4. got' \in Seq(Byte)
    BY <1>1, <1>3, BlockParts
<1>5. SubSeq(blocks, 1, 1) \in Seq(Blocks)
    BY <1>2, <1>3, SplitAt
<1>6. blockalloclen(<<>>) <= blockalloclen(SubSeq(blocks, 1, 1))
    BY <1>5, NothingIsLighter
<1> QED BY <1>1, <1>2, <1>3, <1>4, <1>6, TakeQioInv

(* What is left of a block weighs no more than the blocks up to it.        *)
LEMMA LeftOverLighter ==
    ASSUME blocks \in Seq(Blocks), NEW k \in 1 .. Len(blocks), NEW n \in Nat
    PROVE  /\ LeftOver(blocks[k], n) \in Seq(Blocks)
           /\ blockalloclen(LeftOver(blocks[k], n)) <= blockalloclen(SubSeq(blocks, 1, k))
<1> DEFINE cs == SubSeq(blocks, 1, k - 1)
           b == blocks[k]
           l == LeftOver(b, n)
<1>1. cs \in Seq(Blocks) /\ b \in Blocks /\ SubSeq(blocks, 1, k) = cs \o <<b>>
    BY FirstBlocks
<1> HIDE DEF cs, b
<1>2. l \in Seq(Blocks) /\ blockalloclen(l) <= b.alloc /\ b.alloc \in Nat
    BY <1>1, LeftOverParts, BlockParts
<1> HIDE DEF l
<1>3. <<b>> \in Seq(Blocks) /\ blockalloclen(<<b>>) = b.alloc
    BY <1>1, BlockSumsOne
<1>4. blockalloclen(cs \o <<b>>) = blockalloclen(cs) + blockalloclen(<<b>>)
    BY <1>1, <1>3, BlockSumsConcat
<1>5. blockalloclen(cs) \in Nat /\ blockalloclen(l) \in Nat
    BY <1>1, <1>2, BlockSums
<1>6. blockalloclen(l) <= blockalloclen(cs \o <<b>>)
    BY <1>2, <1>3, <1>4, <1>5
<1> QED BY <1>1, <1>2, <1>6 DEF l, b

LEMMA QdiscardQioInv ==
    ASSUME QioInv, NEW o \in Other, NEW n \in ReadSize, Qdiscard(o, n)
    PROVE  QioInv'
<1> DEFINE k == Covered(n)
           more == n - blocklen(SubSeq(blocks, 1, k))
<1>1. /\ at[o] = "idle" /\ use \in {"out", "uart"}
      /\ got' = SubSeq(Bytes(blocks), 1, Smaller(n, blocklen(blocks)))
      /\ IF more > 0 /\ k < Len(blocks) THEN Replace(k + 1, LeftOver(blocks[k + 1], more))
                                        ELSE Replace(k, <<>>)
      /\ RestartBelow(o, Limit, "idle") /\ Limit \in {Limit \div 2, Limit}
      /\ UNCHANGED <<kept, starve, closed, noblock, eof, rlock, wlock, hand, want>>
    BY DEF Qdiscard
<1>2. blocks \in Seq(Blocks) /\ <<>> \in Seq(Blocks) /\ n \in Nat
    BY QioAssumption DEF QioInv, LenAccurate, QioTypeOK
<1>3. k \in 0 .. Len(blocks) /\ blocklen(SubSeq(blocks, 1, k)) <= n
    BY <1>2, CoveredParts
<1>4. got' \in Seq(Byte)
  <2>1. Bytes(blocks) \in Seq(Byte) /\ Len(Bytes(blocks)) = blocklen(blocks)
      BY <1>2, BytesType, BytesLength
  <2> QED BY <1>1, <1>2, <2>1, FirstBytes
<1>5. SubSeq(blocks, 1, k) \in Seq(Blocks)
    BY <1>2, <1>3, SplitAt
<1>6. blocklen(SubSeq(blocks, 1, k)) \in Nat
    BY <1>5, BlockSums
<1> HIDE DEF k
<1>7. more \in Nat
    BY <1>2, <1>3, <1>6
<1> HIDE DEF more
<1>8. CASE more > 0 /\ k < Len(blocks)
  <2>1. k + 1 \in 1 .. Len(blocks) /\ k + 1 \in 0 .. Len(blocks)
      BY <1>3, <1>8
  <2>2. /\ LeftOver(blocks[k + 1], more) \in Seq(Blocks)
        /\ blockalloclen(LeftOver(blocks[k + 1], more)) <= blockalloclen(SubSeq(blocks, 1, k + 1))
      BY <1>2, <1>7, <2>1, LeftOverLighter
  <2>3. Replace(k + 1, LeftOver(blocks[k + 1], more))
      BY <1>1, <1>8
  <2> QED BY <1>1, <1>4, <2>1, <2>2, <2>3, TakeQioInv
<1>9. CASE ~(more > 0 /\ k < Len(blocks))
  <2>1. blockalloclen(<<>>) <= blockalloclen(SubSeq(blocks, 1, k))
      BY <1>5, NothingIsLighter
  <2>2. Replace(k, <<>>)
      BY <1>1, <1>9
  <2> QED BY <1>1, <1>2, <1>3, <1>4, <2>1, <2>2, TakeQioInv
<1> QED BY <1>8, <1>9

LEMMA NotEmptyParts ==
    ASSUME blocks \in Seq(Blocks), NotEmpty /= {}
    PROVE  /\ Min(NotEmpty) \in 1 .. Len(blocks)
           /\ BLEN(blocks[Min(NotEmpty)]) > 0
           /\ \A i \in 1 .. Min(NotEmpty) - 1 : BLEN(blocks[i]) = 0
<1>1. DOMAIN blocks = 1 .. Len(blocks) /\ Len(blocks) \in Nat
    BY LenProperties
<1>2. NotEmpty \in SUBSET Nat /\ \A i \in 1 .. Len(blocks) : i \in NotEmpty <=> BLEN(blocks[i]) > 0
    BY <1>1 DEF NotEmpty
<1>3. Min(NotEmpty) \in NotEmpty /\ \A i \in NotEmpty : Min(NotEmpty) <= i
    BY <1>2, LeastOf
<1>4. Min(NotEmpty) \in 1 .. Len(blocks) /\ BLEN(blocks[Min(NotEmpty)]) > 0
    BY <1>1, <1>3 DEF NotEmpty
<1>5. ASSUME NEW i \in 1 .. Min(NotEmpty) - 1 PROVE BLEN(blocks[i]) = 0
  <2>1. i \in 1 .. Len(blocks) /\ ~(Min(NotEmpty) <= i)
      BY <1>1, <1>4
  <2>2. ~(BLEN(blocks[i]) > 0)
      BY <1>2, <1>3, <2>1
  <2>3. BLEN(blocks[i]) \in Nat
      BY <2>1, BlockParts, ElementOfSeq
  <2> QED BY <2>2, <2>3
<1> QED BY <1>4, <1>5

LEMMA QconsumeQioInv ==
    ASSUME QioInv, NEW o \in Other, NEW n \in ReadSize, Qconsume(o, n)
    PROVE  QioInv'
<1> DEFINE k == Min(NotEmpty)
           b == blocks[k]
<1>1. /\ at[o] = "idle" /\ use \in {"out", "uart"} /\ NotEmpty /= {}
      /\ got' = SubSeq(b.data, 1, Smaller(n, BLEN(b)))
      /\ Replace(k, LeftOver(b, n))
      /\ RestartBelow(o, Limit \div 2, "idle")
      /\ UNCHANGED <<kept, starve, closed, noblock, eof, rlock, wlock, hand, want>>
    BY DEF Qconsume
<1>2. blocks \in Seq(Blocks) /\ n \in Nat
    BY QioAssumption DEF QioInv, LenAccurate, QioTypeOK
<1>3. k \in 1 .. Len(blocks)
    BY <1>1, <1>2, NotEmptyParts
<1> HIDE DEF k
<1>4. k \in 0 .. Len(blocks) /\ b \in Blocks
    BY <1>2, <1>3, ElementOfSeq
<1>5. /\ LeftOver(b, n) \in Seq(Blocks)
      /\ blockalloclen(LeftOver(b, n)) <= blockalloclen(SubSeq(blocks, 1, k))
    BY <1>2, <1>3, LeftOverLighter
<1>6. got' \in Seq(Byte)
  <2>1. b.data \in Seq(Byte) /\ BLEN(b) = Len(b.data)
      BY <1>4, BlockParts DEF BLEN
  <2> QED BY <1>1, <1>2, <2>1, FirstBytes
<1> HIDE DEF b
<1> QED BY <1>1, <1>4, <1>5, <1>6, TakeQioInv

LEMMA StepQioInv == QioInv /\ [QioNext]_qvars => QioInv'
<1> SUFFICES ASSUME QioInv, [QioNext]_qvars PROVE QioInv'
    OBVIOUS
<1>1. CASE UNCHANGED qvars
    BY <1>1 DEF QioInv, LenAccurate, QioTypeOK, Roles, QLocksHeld, Ends, HandFits, AboutToSleep,
        SleeperWillBeWoken, ReaderHasHope, WriterHasHope, notempty, qvars
<1>2. ASSUME NEW r \in Reader, ReadCall(r) \/ ReadStep(r) \/ QreadInterrupted(r)
      PROVE  QioInv'
    BY <1>2, ReadCallQioInv, QwaitClosedQioInv, QwaitEmptyQioInv, ReadSleepQioInv, QreadCopyQioInv,
        WakeupWriterQioInv, QreadQioInv, QbreadQioInv, ReadInterruptedQioInv DEF ReadStep, Actor
<1>3. ASSUME NEW w \in Writer,
             WriteStep(w) \/ WriteInterrupted(w) \/ \E d \in Data : Qbwrite(w, d)
      PROVE  QioInv'
    BY <1>3, WakeupReaderQioInv, WriteReturnsQioInv, WriteFullQioInv, WriteFlowQioInv, WriteSleepQioInv,
        WriteInterruptedQioInv, QbwriteQioInv DEF WriteStep, Actor
<1>4. ASSUME NEW o \in Other, WakeStep(o) PROVE QioInv'
    BY <1>4, WakeupReaderQioInv, WakeupWriterQioInv DEF WakeStep, Actor
<1>5. ASSUME NEW o \in Handler,
             \/ QproduceFull(o) \/ Qget(o) \/ ConsumeNothing(o)
             \/ \E d \in Data : Qproduce(o, d) \/ Qpass(o, d) \/ Qiwrite(o, d)
             \/ \E n \in ReadSize : Qdiscard(o, n) \/ Qconsume(o, n)
      PROVE  QioInv'
    BY <1>5, QproduceFullQioInv, QgetQioInv, ConsumeNothingQioInv, HandlerAddsQioInv,
        QdiscardQioInv, QconsumeQioInv DEF Other
<1>6. ASSUME NEW o \in Closer, Qclose(o) \/ Qhangup(o) \/ Qreopen(o) \/ Qflush(o)
      PROVE  QioInv'
    BY <1>6, QcloseQioInv, QhangupQioInv, QreopenQioInv, QflushQioInv DEF Other
<1> QED BY <1>1, <1>2, <1>3, <1>4, <1>5, <1>6 DEF QioNext

LEMMA InvQioInv == QioSpec => []QioInv
<1> QED BY InitQioInv, StepQioInv, PTL DEF QioSpec

(* The counters of flow control are right in every reachable state.        *)
THEOREM QioLenAccurate == QioSpec => []LenAccurate
<1>1. QioInv => LenAccurate
    BY DEF QioInv
<1> QED BY <1>1, InvQioInv, PTL

(* No wakeup of a Queue is lost.                                           *)
THEOREM QioSleeperWillBeWoken == QioSpec => []SleeperWillBeWoken
<1>1. QioInv => SleeperWillBeWoken
    BY DEF QioInv
<1> QED BY <1>1, InvQioInv, PTL

-----------------------------------------------------------------------------
(* The Queue as a stream of bytes.                                         *)
Unread == Bytes(hand) \o Bytes(blocks)

LEMMA UnreadNext == Unread' = Bytes(hand') \o Bytes(blocks')
BY DEF Unread

LEMMA UnreadType == QioInv => Unread \in Seq(Byte)
<1> SUFFICES ASSUME QioInv PROVE Unread \in Seq(Byte)
    OBVIOUS
<1>1. hand \in Seq(Blocks) /\ blocks \in Seq(Blocks)
    BY DEF QioInv, LenAccurate, QioTypeOK
<1>2. Bytes(hand) \in Seq(Byte) /\ Bytes(blocks) \in Seq(Byte)
    BY <1>1, BytesType
<1> QED BY <1>2, ConcatProperties DEF Unread

(* The steps of ByteStream.                                                *)
LEMMA Quietly ==
    ASSUME Unread' = Unread, UNCHANGED <<closed, got, use, mode>>
    PROVE  UNCHANGED Stream!vars
BY DEF Stream!vars, Unread

(* The sequence operators that ByteStream sees are those of this module.   *)
LEMMA SamePrefix == \A s, t : Stream!IsPrefix(s, t) <=> IsPrefix(s, t)
BY DEF Stream!IsPrefix, IsPrefix

LEMMA SameSuffix == \A s, t : Stream!IsSuffix(s, t) <=> IsSuffix(s, t)
BY SamePrefix DEF Stream!IsSuffix, IsSuffix, Stream!Reverse, Reverse

LEMMA WritesBytes ==
    ASSUME Unread \in Seq(Byte), NEW d \in Seq(Byte), Unread' = Unread \o d,
           UNCHANGED <<closed, got, use, mode>>
    PROVE  Stream!Next
<1>1. IsPrefix(Unread, Unread')
    BY IsPrefixOfConcat
<1>2. Stream!IsPrefix(Unread, Unread')
    BY <1>1, SamePrefix
<1>3. Stream!Write
    BY <1>2 DEF Stream!Write, Stream!kept, Unread
<1> QED BY <1>3 DEF Stream!Next

(* A read takes the first bytes, and of a message the rest goes with them. *)
LEMMA ReadsBytes ==
    ASSUME Unread' \in Seq(Byte), got' \in Seq(Byte), NEW rest \in Seq(Byte),
           rest = <<>> \/ mode = "msg",
           Unread = got' \o (rest \o Unread'),
           UNCHANGED <<closed, use, mode>>
    PROVE  Stream!Next
<1> DEFINE s == Unread
           t == Unread'
           g == got'
           u == rest \o t
<1>1. t \in Seq(Byte) /\ g \in Seq(Byte) /\ s = g \o u /\ (rest = <<>> => u = t)
    BY ConcatEmptySeq
<1>2. u \in Seq(Byte) /\ Len(u) = Len(rest) + Len(t) /\ Len(rest) \in Nat /\ Len(t) \in Nat
    BY ConcatProperties
<1> HIDE DEF s, t, g, u
<1>3. IsPrefix(g, s)
    BY <1>1, <1>2, IsPrefixOfConcat
<1>4. Len(s) = Len(g) + (Len(rest) + Len(t)) /\ Len(g) \in Nat
  <2>1. Len(g \o u) = Len(g) + Len(u) /\ Len(g) \in Nat
      BY <1>1, <1>2, ConcatProperties, LenProperties
  <2> QED BY <1>1, <1>2, <2>1
<1>5. IsSuffix(t, s)
  <2>1. (g \o rest) \o t = g \o (rest \o t)
      BY <1>1, ConcatAssociative, SMTT(30)
  <2>2. g \o rest \in Seq(Byte)
      BY <1>1, ConcatProperties
  <2>3. s = (g \o rest) \o t
      BY <1>1, <2>1 DEF u, t
  <2> DEFINE v == g \o rest
  <2> HIDE DEF v
  <2>4. IsSuffix(t, v \o t)
      BY <1>1, <2>2, IsSuffixOfConcat DEF v
  <2> QED BY <2>3, <2>4 DEF v
<1>6. IF mode = "msg" THEN Len(t) <= Len(s) - Len(g) ELSE Len(t) = Len(s) - Len(g)
  <2>1. Len(t) <= Len(s) - Len(g)
      BY <1>2, <1>4
  <2>2. mode /= "msg" => Len(rest) = 0
      BY EmptySeq
  <2>3. mode /= "msg" => Len(t) = Len(s) - Len(g)
      BY <1>2, <1>4, <2>2
  <2> QED BY <2>1, <2>3
<1>7. got' \notin {Eof, Hungup}
    BY QioAssumption
<1>8. Stream!IsPrefix(g, s) /\ Stream!IsSuffix(t, s)
    BY <1>3, <1>5, SamePrefix, SameSuffix
<1>9. Stream!Read
    BY <1>6, <1>8 DEF Stream!Read, Stream!kept, Unread, s, t, g
<1> QED BY <1>7, <1>9 DEF Stream!Next

(* Steps that touch no bytes.                                              *)
LEMMA NothingMoves ==
    ASSUME UNCHANGED <<kept, blocks, closed, hand, got>>
    PROVE  UNCHANGED Stream!vars
BY UnreadNext, Quietly DEF Unread, kept

LEMMA NoBytesMove ==
    ASSUME NEW a \in Actor,
           \/ ReadCall(a) \/ ReadSleep(a) \/ QreadInterrupted(a)
           \/ WakeupReader(a) \/ WakeupWriter(a)
           \/ WriteReturns(a) \/ WriteFull(a) \/ WriteFlow(a) \/ WriteSleep(a)
           \/ WriteInterrupted(a)
           \/ QproduceFull(a)
    PROVE  UNCHANGED Stream!vars
<1>1. UNCHANGED <<kept, blocks, closed, hand, got>>
    BY DEF ReadCall, ReadSleep, QreadInterrupted, WakeupReader, WakeupWriter, WriteReturns,
        WriteFull, WriteFlow, WriteSleep, WriteInterrupted, QproduceFull, list, reading
<1> QED BY <1>1, NothingMoves

(* The block that is queued comes last.                                    *)
LEMMA AddsBytes ==
    ASSUME QioInv, NEW d \in Data, NEW a, NEW next, Add(a, d, next),
           UNCHANGED <<kept, closed, hand, got>>
    PROVE  Stream!Next
<1>1. hand \in Seq(Blocks) /\ blocks \in Seq(Blocks) /\ d \in Seq(Byte)
    BY QioAssumption DEF QioInv, LenAccurate, QioTypeOK
<1>2. Block(d) \in Blocks /\ Block(d).data = d
    BY <1>1, NewBlock
<1> DEFINE b == Block(d)
<1>3. blocks' = Append(blocks, b) /\ b \in Blocks /\ b.data = d
    BY <1>2 DEF Add
<1> HIDE DEF b
<1>4. blocks' = blocks \o <<b>> /\ <<b>> \in Seq(Blocks)
    BY <1>1, <1>3, AppendIsConcat
<1>5. Bytes(blocks') = Bytes(blocks) \o d
    BY <1>1, <1>3, <1>4, BytesConcat, BytesOfOne
<1>6. Bytes(hand) \in Seq(Byte) /\ Bytes(blocks) \in Seq(Byte)
    BY <1>1, BytesType
<1> DEFINE x == Bytes(hand)
           y == Bytes(blocks)
<1>7. x \in Seq(Byte) /\ y \in Seq(Byte) /\ Unread = x \o y /\ Unread' = x \o (y \o d)
    BY <1>5, <1>6, UnreadNext DEF Unread
<1> HIDE DEF x, y
<1>8. Unread' = Unread \o d /\ Unread \in Seq(Byte)
    BY <1>1, <1>7, ConcatAssociative, ConcatProperties, SMTT(30)
<1> QED BY <1>1, <1>8, WritesBytes DEF kept

LEMMA WriteIsWrite ==
    ASSUME QioInv, NEW a \in Actor, NEW d \in Data,
           Qbwrite(a, d) \/ Qproduce(a, d) \/ Qpass(a, d) \/ Qiwrite(a, d)
    PROVE  Stream!Next
<1>1. /\ UNCHANGED <<kept, closed, hand, got>>
      /\ Add(a, d, "full") \/ Add(a, d, "idle")
    BY DEF Qbwrite, Qproduce, Qpass, Qiwrite, reading
<1> QED BY <1>1, AddsBytes

(* Closing, opening and flushing.                                          *)
LEMMA CloseIsClose ==
    ASSUME QioInv, NEW o \in Closer, Qclose(o) \/ Qhangup(o) \/ Qreopen(o) \/ Qflush(o)
    PROVE  Stream!Next
<1>1. hand \in Seq(Blocks) /\ blocks \in Seq(Blocks)
    BY DEF QioInv, LenAccurate, QioTypeOK
<1>2. Bytes(hand) \in Seq(Byte) /\ Bytes(blocks) \in Seq(Byte)
    BY <1>1, BytesType
<1>3. Bytes(hand) \o <<>> = Bytes(hand)
    BY <1>2, ConcatEmptySeq
<1>4. Unread \in Seq(Byte) /\ Unread \o <<>> = Unread /\ <<>> \in Seq(Byte)
    BY UnreadType, ConcatEmptySeq
<1>5. IsPrefix(Bytes(hand), Unread)
    BY <1>2, IsPrefixOfConcat DEF Unread
<1>6. IsPrefix(Unread, Unread)
    BY <1>4, IsPrefixOfConcat
<1>7. CASE Qclose(o) \/ Qflush(o)
  <2>1. Unread' = Bytes(hand)
    <3>1. hand' = hand /\ blocks' = <<>>
        BY <1>7 DEF Qclose, Qflush, Emptied, reading
    <3>2. Bytes(blocks') = <<>>
        BY <3>1, BytesOfNone
    <3> QED BY <1>3, <3>1, <3>2, UnreadNext
  <2>2. Stream!IsPrefix(Unread', Unread)
      BY <1>5, <2>1, SamePrefix
  <2>3. CASE Qclose(o)
    <3>1. Stream!Close
        BY <2>2, <2>3 DEF Stream!Close, Stream!kept, Unread, Qclose, kept, reading
    <3> QED BY <3>1 DEF Stream!Next
  <2>4. CASE Qflush(o)
    <3>1. Stream!Flush
        BY <2>2, <2>4 DEF Stream!Flush, Stream!kept, Unread, Qflush, kept, reading
    <3> QED BY <3>1 DEF Stream!Next
  <2> QED BY <1>7, <2>3, <2>4
<1>8. CASE Qhangup(o) \/ Qreopen(o)
  <2>1. Unread' = Unread
      BY <1>8, UnreadNext DEF Qhangup, Qreopen, list, reading, Unread
  <2>2. Stream!IsPrefix(Unread', Unread)
      BY <1>6, <2>1, SamePrefix
  <2>3. CASE Qhangup(o)
    <3>1. Stream!Close
        BY <2>2, <2>3 DEF Stream!Close, Stream!kept, Unread, Qhangup, kept, reading
    <3> QED BY <3>1 DEF Stream!Next
  <2>4. CASE Qreopen(o)
    <3>1. Stream!Reopen
        BY <2>1, <2>4 DEF Stream!Reopen, Stream!kept, Unread, Qreopen, kept, reading
    <3> QED BY <3>1 DEF Stream!Next
  <2> QED BY <1>8, <2>3, <2>4
<1> QED BY <1>7, <1>8

(* Blocks without bytes go away.                                           *)
LEMMA EmptyBlocksGo ==
    ASSUME QioInv, blocks' = <<>>, blocklen(blocks) = 0, UNCHANGED <<kept, closed, hand, got>>
    PROVE  UNCHANGED Stream!vars
<1>1. blocks \in Seq(Blocks)
    BY DEF QioInv, LenAccurate, QioTypeOK
<1>2. Bytes(blocks) = <<>> /\ Bytes(blocks') = <<>>
    BY <1>1, NoBytes, BytesOfNone
<1>3. Unread' = Unread
    BY <1>2, UnreadNext DEF Unread
<1> QED BY <1>3, Quietly DEF kept

LEMMA AllEmpties ==
    ASSUME QioInv, Empties = Len(blocks)
    PROVE  blocklen(blocks) = 0
<1>1. blocks \in Seq(Blocks)
    BY DEF QioInv, LenAccurate, QioTypeOK
<1>2. blocklen(SubSeq(blocks, 1, Len(blocks))) = 0
    BY <1>1, EmptiesParts
<1>3. SubSeq(blocks, 1, Len(blocks)) = blocks
    BY <1>1, SubSeqFull
<1> QED BY <1>2, <1>3

LEMMA QwaitIsQuiet ==
    ASSUME QioInv, NEW r \in Reader, QwaitEmpty(r)
    PROVE  UNCHANGED Stream!vars
<1>1. /\ Empties = Len(blocks) /\ Replace(Len(blocks), <<>>)
      /\ UNCHANGED <<kept, closed, hand, got>>
    BY DEF QwaitEmpty, reading
<1>2. blocks' = <<>>
    BY <1>1, AllReplaced DEF QioInv
<1> QED BY <1>1, <1>2, AllEmpties, EmptyBlocksGo

LEMMA ConsumeNothingIsQuiet ==
    ASSUME QioInv, NEW o \in Other, ConsumeNothing(o)
    PROVE  UNCHANGED Stream!vars
<1>1. /\ Replace(Len(blocks), <<>>)
      /\ blocks = <<>> \/ NotEmpty = {}
      /\ UNCHANGED <<kept, closed, hand, got>>
    BY DEF ConsumeNothing, reading
<1>2. blocks \in Seq(Blocks)
    BY DEF QioInv, LenAccurate, QioTypeOK
<1>3. blocks' = <<>>
    BY <1>1, AllReplaced DEF QioInv
<1>4. blocklen(blocks) = 0
  <2>1. CASE blocks = <<>>
      BY <2>1, BlockSumsEmpty
  <2>2. CASE NotEmpty = {}
    <3>1. DOMAIN blocks = 1 .. Len(blocks)
        BY <1>2, LenProperties
    <3>2. ASSUME NEW i \in 1 .. Len(blocks) PROVE BLEN(blocks[i]) = 0
      <4>1. ~(BLEN(blocks[i]) > 0)
          BY <2>2, <3>1 DEF NotEmpty
      <4>2. BLEN(blocks[i]) \in Nat
          BY <1>2, BlockParts, ElementOfSeq
      <4> QED BY <4>1, <4>2
    <3> QED BY <1>2, <3>2, AllEmpty
  <2> QED BY <1>1, <2>1, <2>2
<1> QED BY <1>1, <1>3, <1>4, EmptyBlocksGo

(* End of file, when everything has been read.                             *)
LEMMA QwaitIsReadEnd ==
    ASSUME QioInv, NEW r \in Reader, QwaitClosed(r)
    PROVE  Stream!Next
<1>1. /\ at[r] = "wait" /\ Empties = Len(blocks) /\ closed /\ Replace(Len(blocks), <<>>)
      /\ got' \in {Eof, Hungup}
      /\ UNCHANGED <<kept, closed, hand>>
    BY DEF QwaitClosed, ReadReturns
<1>2. hand = <<>> /\ blocks \in Seq(Blocks)
    BY <1>1, QioAssumption DEF QioInv, QLocksHeld, LenAccurate, QioTypeOK, Actor
<1>3. blocks' = <<>>
    BY <1>1, AllReplaced DEF QioInv
<1>4. Bytes(hand) = <<>> /\ Bytes(blocks) = <<>> /\ Bytes(hand') = <<>> /\ Bytes(blocks') = <<>>
    BY <1>1, <1>2, <1>3, AllEmpties, NoBytes, BytesOfNone
<1>5. Unread = <<>> /\ Unread' = <<>>
  <2>1. <<>> \o <<>> = <<>>
      OBVIOUS
  <2> QED BY <1>4, <2>1, UnreadNext DEF Unread
<1>6. Stream!ReadEnd
    BY <1>1, <1>5 DEF Stream!ReadEnd, Stream!kept, Unread, kept
<1> QED BY <1>6 DEF Stream!Next

LEMMA AssociativeBytes ==
    ASSUME NEW x \in Seq(Byte), NEW y \in Seq(Byte), NEW z \in Seq(Byte)
    PROVE  (x \o y) \o z = x \o (y \o z)
BY ConcatAssociative, SMTT(30)

(* The first bytes are returned, of a message the rest is thrown away, and *)
(* what is left of a block is put back.                                    *)
LEMMA TakesBytes ==
    ASSUME QioInv, NEW k \in 0 .. Len(blocks), NEW bs \in Seq(Blocks), Replace(k, bs),
           got' \in Seq(Byte), NEW rest \in Seq(Byte), rest = <<>> \/ mode = "msg",
           hand' = <<>>, UNCHANGED <<kept, closed>>
    PROVE  Bytes(hand) \o Bytes(SubSeq(blocks, 1, k)) = got' \o (rest \o Bytes(bs))
           => Stream!Next
<1> DEFINE h == Bytes(hand)
           f == Bytes(SubSeq(blocks, 1, k))
           d == Bytes(Dropped(blocks, k))
           b == Bytes(bs)
           g == got'
<1>b. \A x, y \in Seq(Byte) : x \o y \in Seq(Byte)
    BY ConcatProperties
<1>1. hand \in Seq(Blocks) /\ blocks \in Seq(Blocks)
    BY DEF QioInv, LenAccurate, QioTypeOK
<1>2. /\ SubSeq(blocks, 1, k) \in Seq(Blocks) /\ Dropped(blocks, k) \in Seq(Blocks)
      /\ Bytes(blocks) = f \o d
    BY <1>1, BlockSumsSplit, BytesSplit
<1>3. h \in Seq(Byte) /\ f \in Seq(Byte) /\ d \in Seq(Byte) /\ b \in Seq(Byte) /\ g \in Seq(Byte)
    BY <1>1, <1>2, BytesType
<1>4. Bytes(blocks') = b \o d
    BY <1>2, BytesConcat DEF Replace
<1>5. Unread' = b \o d
  <2>1. <<>> \o (b \o d) = b \o d
      BY <1>3, <1>b, ConcatEmptySeq
  <2>2. Bytes(hand') = <<>>
      BY BytesOfNone
  <2> QED BY <1>4, <2>1, <2>2, UnreadNext
<1>6. Unread = h \o (f \o d)
    BY <1>2 DEF Unread
<1> HIDE DEF h, f, d, b, g
<1>7. h \o f = g \o (rest \o b) => h \o (f \o d) = g \o (rest \o (b \o d))
  <2>1. h \in Seq(Byte) /\ f \in Seq(Byte) /\ d \in Seq(Byte)
      BY <1>3
  <2>2. (h \o f) \o d = h \o (f \o d)
      BY <2>1, AssociativeBytes, SMTT(30)
  <2>3. b \in Seq(Byte) /\ d \in Seq(Byte)
      BY <1>3
  <2>4. (rest \o b) \o d = rest \o (b \o d) /\ rest \o b \in Seq(Byte)
      BY <1>b, <2>3, AssociativeBytes, SMTT(30)
  <2> DEFINE rb == rest \o b
  <2>5. g \in Seq(Byte) /\ rb \in Seq(Byte) /\ d \in Seq(Byte)
      BY <1>3, <2>4
  <2> HIDE DEF rb
  <2>6. (g \o rb) \o d = g \o (rb \o d)
      BY <2>5, AssociativeBytes, SMTT(30)
  <2>7. ASSUME h \o f = g \o rb PROVE h \o (f \o d) = g \o (rest \o (b \o d))
    <3>1. h \o (f \o d) = (g \o rb) \o d
        BY <2>2, <2>7, Zenon
    <3>2. rb \o d = rest \o (b \o d)
        BY <2>4, Zenon DEF rb
    <3> QED BY <2>6, <3>1, <3>2, Zenon
  <2> QED BY <2>7 DEF rb
<1>8. b \o d \in Seq(Byte)
    BY <1>3, <1>b
<1>9. h \o f = g \o (rest \o b) => Unread = g \o (rest \o Unread')
    BY <1>5, <1>6, <1>7, Zenon
<1>10. Unread' \in Seq(Byte)
    BY <1>5, <1>8
<1> QED BY <1>9, <1>10, ReadsBytes DEF kept, h, f, b, g

(* The n first bytes of some, or all, and the others.                      *)
LEMMA FirstAndOthers ==
    ASSUME NEW d \in Seq(Byte), NEW n \in Nat
    PROVE  /\ SubSeq(d, 1, Smaller(n, Len(d))) \in Seq(Byte)
           /\ Len(d) > n => /\ Smaller(n, Len(d)) = n
                            /\ Dropped(d, n) \in Seq(Byte)
                            /\ d = SubSeq(d, 1, Smaller(n, Len(d))) \o Dropped(d, n)
           /\ Len(d) <= n => SubSeq(d, 1, Smaller(n, Len(d))) = d
           /\ \E rest \in Seq(Byte) : d = SubSeq(d, 1, Smaller(n, Len(d))) \o rest
<1>1. Len(d) \in Nat
    BY LenProperties
<1>2. /\ Smaller(n, Len(d)) \in 0 .. Len(d)
      /\ Len(d) > n => Smaller(n, Len(d)) = n
      /\ Len(d) <= n => Smaller(n, Len(d)) = Len(d)
    BY <1>1 DEF Smaller
<1>3. SubSeq(d, 1, Len(d)) = d
    BY SubSeqFull
<1> DEFINE k == Smaller(n, Len(d))
<1>4. /\ SubSeq(d, 1, k) \in Seq(Byte) /\ Dropped(d, k) \in Seq(Byte)
      /\ d = SubSeq(d, 1, k) \o Dropped(d, k)
    BY <1>2, SplitAt DEF Dropped
<1> QED BY <1>2, <1>3, <1>4

(* What is not returned of a block stays in it.                            *)
LEMMA BytesOfLeftOver ==
    ASSUME NEW b \in Blocks, NEW n \in Nat
    PROVE  /\ b.data \in Seq(Byte)
           /\ SubSeq(b.data, 1, Smaller(n, BLEN(b))) \in Seq(Byte)
           /\ b.data = SubSeq(b.data, 1, Smaller(n, BLEN(b))) \o Bytes(LeftOver(b, n))
<1> DEFINE d == b.data
<1>1. d \in Seq(Byte) /\ BLEN(b) = Len(d)
    BY BlockParts DEF BLEN
<1>2. CASE BLEN(b) > n
  <2> DEFINE x == Dropped(d, n)
             c == [data |-> x, alloc |-> b.alloc]
  <2>1. x \in Seq(Byte) /\ LeftOver(b, n) = <<c>>
      BY <1>2, LeftOverParts
  <2>2. <<c>> \in Seq(Blocks) => c \in Blocks
    <3>1. <<c>>[1] = c /\ Len(<<c>>) = 1
        OBVIOUS
    <3> HIDE DEF c
    <3> QED BY <3>1, ElementOfSeq
  <2>3. c \in Blocks /\ c.data = x
      BY <2>1, <2>2, LeftOverParts
  <2>4. Bytes(LeftOver(b, n)) = x
      BY <2>1, <2>3, BytesOfOne
  <2> QED BY <1>1, <1>2, <2>4, FirstAndOthers, SMTT(30)
<1>3. CASE ~(BLEN(b) > n)
  <2>1. LeftOver(b, n) = <<>> /\ Len(d) <= n
      BY <1>1, <1>3, LenProperties DEF LeftOver
  <2>2. Bytes(LeftOver(b, n)) = <<>>
      BY <2>1, BytesOfNone
  <2>3. SubSeq(d, 1, Smaller(n, Len(d))) = d /\ d \o <<>> = d
      BY <1>1, <2>1, FirstAndOthers, ConcatEmptySeq
  <2> QED BY <1>1, <2>2, <2>3
<1> QED BY <1>2, <1>3

LEMMA HandEmpty ==
    ASSUME QioInv, use \in {"out", "uart"} \/ \E r \in Reader : at[r] = "wait"
    PROVE  hand = <<>> /\ Bytes(hand) = <<>>
<1>1. \A r, q \in Reader : at[r] /= "idle" /\ at[q] /= "idle" => r = q
    BY DEF QioInv, QLocksHeld
<1>3. use \in {"out", "uart"} => \A r \in Reader : at[r] = "idle"
    BY QioAssumption DEF QioInv, QLocksHeld, Ends, Actor
<1>4. ~ \E r \in Reader : at[r] = "copy"
    BY <1>1, <1>3
<1>2. hand = <<>>
    BY <1>4 DEF QioInv, LenAccurate, QioTypeOK
<1> QED BY <1>2, BytesOfNone

LEMMA QgetIsRead ==
    ASSUME QioInv, NEW o \in Other, Qget(o)
    PROVE  Stream!Next
<1>1. /\ use = "out" /\ blocks /= <<>> /\ got' = Head(blocks).data /\ Replace(1, <<>>)
      /\ UNCHANGED <<kept, closed, hand>>
    BY DEF Qget
<1>2. blocks \in Seq(Blocks) /\ <<>> \in Seq(Blocks) /\ <<>> \in Seq(Byte)
    BY DEF QioInv, LenAccurate, QioTypeOK
<1>3. /\ Head(blocks) \in Blocks /\ 1 \in 0 .. Len(blocks)
      /\ SubSeq(blocks, 1, 1) = <<Head(blocks)>>
    BY <1>1, <1>2, HeadParts
<1>4. got' \in Seq(Byte) /\ Bytes(SubSeq(blocks, 1, 1)) = got'
    BY <1>1, <1>3, BlockParts, BytesOfOne
<1>5. hand = <<>> /\ hand' = <<>> /\ Bytes(hand) = <<>>
    BY <1>1, HandEmpty
<1>6. <<>> \o got' = got' /\ got' \o (<<>> \o <<>>) = got'
    BY <1>4, ConcatEmptySeq
<1>7. Bytes(hand) \o Bytes(SubSeq(blocks, 1, 1)) = got' \o (<<>> \o Bytes(<<>>))
    BY <1>4, <1>5, <1>6, BytesOfNone
<1> QED BY <1>1, <1>2, <1>3, <1>4, <1>5, <1>7, TakesBytes

LEMMA QconsumeIsRead ==
    ASSUME QioInv, NEW o \in Other, NEW n \in ReadSize, Qconsume(o, n)
    PROVE  Stream!Next
<1> DEFINE k == Min(NotEmpty)
           b == blocks[k]
           l == LeftOver(b, n)
<1>1. /\ use = "uart" /\ NotEmpty /= {}
      /\ got' = SubSeq(b.data, 1, Smaller(n, BLEN(b)))
      /\ Replace(k, l)
      /\ UNCHANGED <<kept, closed, hand>>
    BY DEF Qconsume
<1>2. blocks \in Seq(Blocks) /\ n \in Nat /\ <<>> \in Seq(Byte)
    BY QioAssumption DEF QioInv, LenAccurate, QioTypeOK
<1>3. k \in 1 .. Len(blocks) /\ \A i \in 1 .. k - 1 : BLEN(blocks[i]) = 0
    BY <1>1, <1>2, NotEmptyParts
<1> HIDE DEF k
<1>4. k \in 0 .. Len(blocks) /\ b \in Blocks
    BY <1>2, <1>3, ElementOfSeq
<1>5. Bytes(SubSeq(blocks, 1, k - 1)) = <<>>
  <2> DEFINE cs == SubSeq(blocks, 1, k - 1)
  <2>1. cs \in Seq(Blocks)
      BY <1>2, <1>3, FirstBlocks
  <2>2. k - 1 \in 0 .. Len(blocks) /\ Len(blocks) \in Nat
      BY <1>2, <1>3, LenProperties
  <2>3. Len(cs) = k - 1 /\ \A i \in 1 .. k - 1 : cs[i] = blocks[i]
      BY <1>2, <2>2, SubSeqProperties
  <2> HIDE DEF cs
  <2>4. \A i \in 1 .. Len(cs) : BLEN(cs[i]) = 0
      BY <1>3, <2>3
  <2>5. Bytes(cs) = <<>>
      BY <2>1, <2>4, AllEmpty, NoBytes
  <2> QED BY <2>5 DEF cs
<1>6. Bytes(SubSeq(blocks, 1, k)) = <<>> \o b.data
    BY <1>2, <1>3, <1>5, FirstBlocks
<1> HIDE DEF b
<1>7. /\ b.data \in Seq(Byte) /\ got' \in Seq(Byte) /\ b.data = got' \o Bytes(l)
      /\ l \in Seq(Blocks)
    BY <1>1, <1>2, <1>4, BytesOfLeftOver, LeftOverParts
<1>8. hand = <<>> /\ hand' = <<>> /\ Bytes(hand) = <<>>
    BY <1>1, HandEmpty
<1> HIDE DEF l
<1>9. <<>> \o (<<>> \o b.data) = b.data /\ <<>> \o Bytes(l) = Bytes(l)
    BY <1>7, BytesType, ConcatEmptySeq
<1>10. Bytes(hand) \o Bytes(SubSeq(blocks, 1, k)) = got' \o (<<>> \o Bytes(l))
    BY <1>6, <1>7, <1>8, <1>9
<1> QED BY <1>1, <1>2, <1>4, <1>7, <1>8, <1>10, TakesBytes

LEMMA QbreadIsRead ==
    ASSUME QioInv, NEW r \in Reader, NEW n \in ReadSize, Qbread(r, n)
    PROVE  Stream!Next
<1> DEFINE d == Head(blocks).data
           x == Dropped(d, n)
           bs == IF Len(d) > n /\ mode /= "msg" THEN <<Block(x)>> ELSE <<>>
<1>1. /\ at[r] = "wait" /\ blocks /= <<>>
      /\ got' = SubSeq(d, 1, Smaller(n, Len(d)))
      /\ Replace(1, bs)
      /\ UNCHANGED <<kept, closed, hand>>
    BY DEF Qbread
<1>2. blocks \in Seq(Blocks) /\ n \in Nat /\ <<>> \in Seq(Blocks) /\ <<>> \in Seq(Byte)
    BY QioAssumption DEF QioInv, LenAccurate, QioTypeOK
<1>3. /\ Head(blocks) \in Blocks /\ 1 \in 0 .. Len(blocks)
      /\ SubSeq(blocks, 1, 1) = <<Head(blocks)>>
    BY <1>1, <1>2, HeadParts
<1>4. d \in Seq(Byte) /\ Len(d) \in Nat /\ Bytes(SubSeq(blocks, 1, 1)) = d
    BY <1>3, BlockParts, BytesOfOne, LenProperties
<1>5. hand = <<>> /\ hand' = <<>> /\ Bytes(hand) = <<>>
    BY <1>1, HandEmpty
<1>6. Bytes(hand) \o Bytes(SubSeq(blocks, 1, 1)) = d
    BY <1>4, <1>5, ConcatEmptySeq
<1> HIDE DEF d
<1>7. /\ got' \in Seq(Byte)
      /\ Len(d) > n => x \in Seq(Byte) /\ d = got' \o x
      /\ Len(d) <= n => d = got'
      /\ \E rest \in Seq(Byte) : d = got' \o rest
  <2> DEFINE g == SubSeq(d, 1, Smaller(n, Len(d)))
  <2>1. g \in Seq(Byte) /\ (Len(d) <= n => g = d) /\ \E rest \in Seq(Byte) : d = g \o rest
      BY <1>2, <1>4, FirstAndOthers, ZenonT(60)
  <2>2. Len(d) > n => x \in Seq(Byte) /\ d = g \o x
      BY <1>2, <1>4, FirstAndOthers
  <2>3. got' = g
      BY <1>1
  <2> HIDE DEF g, x
  <2> QED BY <2>1, <2>2, <2>3
<1> HIDE DEF x
<1>8. CASE Len(d) > n /\ mode /= "msg"
  <2>1. /\ Block(x) \in Blocks /\ Block(x).data = x /\ x \in Seq(Byte)
      BY <1>7, <1>8, NewBlock
  <2>2. bs = <<Block(x)>> /\ bs \in Seq(Blocks) /\ Bytes(bs) = x
      BY <1>8, <2>1, BytesOfOne
  <2>3. d = got' \o (<<>> \o Bytes(bs))
      BY <1>7, <1>8, <2>1, <2>2, ConcatEmptySeq
  <2> HIDE DEF bs
  <2> QED BY <1>1, <1>2, <1>3, <1>5, <1>6, <1>7, <2>2, <2>3, TakesBytes
<1>9. CASE ~(Len(d) > n /\ mode /= "msg")
  <2>1. PICK rest \in Seq(Byte) : d = got' \o rest /\ (rest = <<>> \/ mode = "msg")
    <3>1. CASE Len(d) > n
        BY <1>7, <1>9, <3>1
    <3>2. CASE ~(Len(d) > n)
      <4>1. d = got' \o <<>>
          BY <1>2, <1>4, <1>7, <3>2, ConcatEmptySeq
      <4> QED BY <1>2, <4>1
    <3> QED BY <3>1, <3>2
  <2>2. bs = <<>> /\ bs \in Seq(Blocks) /\ Bytes(bs) = <<>>
      BY <1>9, BytesOfNone
  <2> HIDE DEF bs
  <2>3. d = got' \o (rest \o Bytes(bs))
      BY <2>1, <2>2, ConcatEmptySeq
  <2> QED BY <1>1, <1>2, <1>3, <1>5, <1>6, <1>7, <2>1, <2>2, <2>3, TakesBytes
<1> QED BY <1>8, <1>9

(* The first blocks and part of the next one.                              *)
LEMMA QdiscardIsRead ==
    ASSUME QioInv, NEW o \in Other, NEW n \in ReadSize, Qdiscard(o, n)
    PROVE  Stream!Next
<1> DEFINE k == Covered(n)
           first == SubSeq(blocks, 1, k)
           more == n - blocklen(first)
           f == Bytes(first)
<1>1. /\ use = "out"
      /\ got' = SubSeq(Bytes(blocks), 1, Smaller(n, blocklen(blocks)))
      /\ IF more > 0 /\ k < Len(blocks) THEN Replace(k + 1, LeftOver(blocks[k + 1], more))
                                        ELSE Replace(k, <<>>)
      /\ UNCHANGED <<kept, closed, hand>>
    BY DEF Qdiscard
<1>2. blocks \in Seq(Blocks) /\ <<>> \in Seq(Blocks) /\ n \in Nat /\ <<>> \in Seq(Byte)
    BY QioAssumption DEF QioInv, LenAccurate, QioTypeOK
<1>3. k \in 0 .. Len(blocks) /\ blocklen(first) <= n /\ Len(blocks) \in Nat
    BY <1>2, CoveredParts, LenProperties
<1>4. \A j \in 1 .. Len(blocks) :
          blocklen(SubSeq(blocks, 1, j)) <= n /\ blocklen(SubSeq(blocks, 1, j - 1)) < n => j <= k
    BY <1>2, CoveredParts
<1>5. hand = <<>> /\ hand' = <<>> /\ Bytes(hand) = <<>>
    BY <1>1, HandEmpty
<1> HIDE DEF k
<1>6. first \in Seq(Blocks) /\ blocklen(first) \in Nat /\ f \in Seq(Byte) /\ Len(f) = blocklen(first)
    BY <1>2, <1>3, SplitAt, BlockSums, BytesType, BytesLength
<1>7. more \in Nat
    BY <1>2, <1>3, <1>6
<1>8. blocklen(blocks) \in Nat /\ Bytes(blocks) \in Seq(Byte)
    BY <1>2, BlockSums, BytesType
<1>9. CASE more > 0 /\ k < Len(blocks)
  <2> DEFINE b == blocks[k + 1]
             next == SubSeq(blocks, 1, k + 1)
             p == SubSeq(b.data, 1, Smaller(more, BLEN(b)))
             q == Bytes(LeftOver(b, more))
             rest == Bytes(Dropped(blocks, k + 1))
  <2>1. k + 1 \in 1 .. Len(blocks) /\ k + 1 \in 0 .. Len(blocks) /\ (k + 1) - 1 = k
      BY <1>3, <1>9
  <2>2. /\ b \in Blocks /\ Bytes(next) = f \o b.data
        /\ blocklen(next) = blocklen(first) + BLEN(b)
      BY <1>2, <2>1, FirstBlocks
  <2>3. next \in Seq(Blocks) /\ Dropped(blocks, k + 1) \in Seq(Blocks)
        /\ blocklen(blocks) = blocklen(next) + blocklen(Dropped(blocks, k + 1))
        /\ Bytes(blocks) = Bytes(next) \o rest
      BY <1>2, <2>1, BlockSumsSplit, BytesSplit
  <2>4. blocklen(next) \in Nat /\ blocklen(Dropped(blocks, k + 1)) \in Nat /\ rest \in Seq(Byte)
      BY <2>3, BlockSums, BytesType
  <2>5. BLEN(b) \in Nat /\ LeftOver(b, more) \in Seq(Blocks)
      BY <1>7, <2>2, BlockParts, LeftOverParts
  <2>6. b.data \in Seq(Byte) /\ p \in Seq(Byte) /\ b.data = p \o q /\ q \in Seq(Byte)
      BY <1>7, <2>2, <2>5, BytesOfLeftOver, BytesType
  <2>7. BLEN(b) > more
    <3>1. blocklen(first) < n
        BY <1>2, <1>6, <1>9
    <3>2. ~(blocklen(next) <= n)
        BY <1>3, <1>4, <2>1, <3>1
    <3> QED BY <1>2, <1>6, <2>2, <2>5, <3>2
  <2>8. Smaller(n, blocklen(blocks)) = n /\ Len(p) = more /\ n = Len(f) + Len(p)
    <3>1. blocklen(blocks) >= n
        BY <1>2, <1>6, <2>2, <2>3, <2>4, <2>5, <2>7, SMTT(30)
    <3>2. Smaller(more, BLEN(b)) = more /\ Smaller(n, blocklen(blocks)) = n
        BY <1>2, <1>7, <1>8, <2>5, <2>7, <3>1 DEF Smaller
    <3>3. more \in 0 .. Len(b.data)
        BY <1>7, <2>5, <2>7 DEF BLEN
    <3>4. Len(p) = more
        BY <2>6, <3>2, <3>3, SplitAt
    <3> QED BY <1>2, <1>6, <3>2, <3>4
  <2>9. Replace(k + 1, LeftOver(b, more))
      BY <1>1, <1>9
  <2> HIDE DEF b, next, p, q, rest, first, f, more
  <2>10. f \o p \in Seq(Byte) /\ Len(f \o p) = n
      BY <1>6, <2>6, <2>8, ConcatProperties
  <2>11. f \o (p \o q) = (f \o p) \o q
      BY <1>6, <2>6, AssociativeBytes, SMTT(30)
  <2> DEFINE fp == f \o p
  <2>12. fp \in Seq(Byte) /\ Len(fp) = n /\ q \in Seq(Byte) /\ rest \in Seq(Byte) /\ q \o rest \in Seq(Byte)
      BY <2>4, <2>6, <2>10, ConcatProperties
  <2>13. Bytes(next) = fp \o q
      BY <2>2, <2>6, <2>11
  <2> HIDE DEF fp
  <2>14. (fp \o q) \o rest = fp \o (q \o rest)
      BY <2>12, AssociativeBytes, SMTT(30)
  <2>15. Bytes(blocks) = fp \o (q \o rest)
      BY <2>3, <2>13, <2>14
  <2>16. SubSeq(fp \o (q \o rest), 1, Len(fp)) = fp
      BY <2>12, FirstPart
  <2>17. got' = fp
    <3>1. got' = SubSeq(Bytes(blocks), 1, n)
        BY <1>1, <2>8
    <3> QED BY <2>12, <2>15, <2>16, <3>1
  <2>18. Bytes(hand) \o Bytes(next) = got' \o (<<>> \o q)
    <3>1. fp \o q \in Seq(Byte)
        BY <2>12, ConcatProperties
    <3>2. <<>> \o (fp \o q) = fp \o q /\ <<>> \o q = q
        BY <2>12, <3>1, ConcatEmptySeq
    <3> QED BY <1>5, <2>13, <2>17, <3>2
  <2>19. Bytes(hand) \o Bytes(SubSeq(blocks, 1, k + 1)) = got' \o (<<>> \o Bytes(LeftOver(b, more)))
      BY <2>18 DEF next, q
  <2>20. got' \in Seq(Byte)
      BY <2>12, <2>17
  <2> QED BY <1>1, <1>2, <1>5, <2>1, <2>5, <2>9, <2>19, <2>20, TakesBytes
<1>10. CASE ~(more > 0 /\ k < Len(blocks))
  <2>1. /\ Bytes(blocks) = f \o Bytes(Dropped(blocks, k)) /\ Dropped(blocks, k) \in Seq(Blocks)
        /\ blocklen(blocks) = blocklen(first) + blocklen(Dropped(blocks, k))
      BY <1>2, <1>3, BytesSplit, BlockSumsSplit
  <2> DEFINE d == Dropped(blocks, k)
  <2>2. blocklen(d) \in Nat /\ Bytes(d) \in Seq(Byte)
      BY <2>1, BlockSums, BytesType
  <2>3. Smaller(n, blocklen(blocks)) = Len(f)
    <3>1. CASE more = 0
        BY <1>2, <1>6, <2>1, <2>2, <3>1 DEF Smaller
    <3>2. CASE k = Len(blocks)
      <4>1. first = blocks
          BY <1>2, <3>2, SubSeqFull
      <4>2. blocklen(blocks) = Len(f) /\ Len(f) <= n /\ Len(f) \in Nat
          BY <1>3, <1>6, <4>1
      <4> QED BY <1>2, <4>2 DEF Smaller
    <3> QED BY <1>3, <1>7, <1>10, <3>1, <3>2
  <2>4. Replace(k, <<>>)
      BY <1>1, <1>10
  <2>5. got' = SubSeq(f \o Bytes(d), 1, Len(f))
      BY <1>1, <2>1, <2>3
  <2> HIDE DEF first, f, d
  <2>6. got' = f
      BY <1>6, <2>2, <2>5, FirstPart
  <2>7. Bytes(hand) \o f = got' \o (<<>> \o Bytes(<<>>))
    <3>1. <<>> \o f = f /\ f \o (<<>> \o <<>>) = f
        BY <1>6, ConcatEmptySeq
    <3> QED BY <1>5, <2>6, <3>1, BytesOfNone
  <2>8. Bytes(hand) \o Bytes(SubSeq(blocks, 1, k)) = got' \o (<<>> \o Bytes(<<>>)) /\ got' \in Seq(Byte)
      BY <1>6, <2>6, <2>7 DEF f, first
  <2> QED BY <1>1, <1>2, <1>3, <1>5, <2>4, <2>8, TakesBytes
<1> QED BY <1>9, <1>10

(* qread takes blocks that nobody has read, and copies them.               *)
LEMMA QreadIsQuiet ==
    ASSUME QioInv, NEW r \in Reader, NEW n \in ReadSize, Qread(r, n)
    PROVE  UNCHANGED Stream!vars
<1> DEFINE e == Empties
           k == Grab(n)
           d == Dropped(blocks, k)
<1>1. /\ at[r] = "wait" /\ e < Len(blocks) /\ hand' = SubSeq(blocks, e + 1, k)
      /\ Replace(k, <<>>)
      /\ UNCHANGED <<kept, closed, got>>
    BY DEF Qread
<1>2. blocks \in Seq(Blocks) /\ n \in Nat /\ Len(blocks) \in Nat
    BY QioAssumption, LenProperties DEF QioInv, LenAccurate, QioTypeOK
<1>3. e \in 0 .. Len(blocks) /\ blocklen(SubSeq(blocks, 1, e)) = 0
    BY <1>2, EmptiesParts
<1>4. k \in e + 1 .. Len(blocks)
    BY <1>1, <1>2, GrabParts
<1> HIDE DEF e, k
<1>5. k \in 0 .. Len(blocks) /\ d \in Seq(Blocks) /\ SubSeq(blocks, 1, k) \in Seq(Blocks)
      /\ Len(SubSeq(blocks, 1, k)) = k
      /\ Bytes(blocks) = Bytes(SubSeq(blocks, 1, k)) \o Bytes(d)
  <2>1. k \in 0 .. Len(blocks)
      BY <1>2, <1>3, <1>4
  <2> QED BY <1>2, <2>1, SplitAt, BlockSumsSplit, BytesSplit
<1>6. Bytes(SubSeq(blocks, 1, k)) = Bytes(hand') /\ hand' \in Seq(Blocks)
  <2> DEFINE bs == SubSeq(blocks, 1, k)
  <2>1. bs \in Seq(Blocks) /\ Len(bs) = k /\ e \in 0 .. Len(bs)
      BY <1>2, <1>3, <1>4, <1>5
  <2>2. SubSeq(bs, 1, e) = SubSeq(blocks, 1, e) /\ Dropped(bs, e) = SubSeq(blocks, e + 1, k)
    <3>1. SubSeq(bs, 1, e) = SubSeq(blocks, 1, e)
        BY <1>2, <1>3, <1>4
    <3>2. SubSeq(bs, e + 1, k) = SubSeq(blocks, e + 1, k)
        BY <1>2, <1>3, <1>4
    <3> QED BY <2>1, <3>1, <3>2 DEF Dropped
  <2> HIDE DEF bs
  <2>3. /\ Bytes(bs) = Bytes(SubSeq(bs, 1, e)) \o Bytes(Dropped(bs, e))
        /\ Dropped(bs, e) \in Seq(Blocks)
      BY <2>1, BytesSplit, BlockSumsSplit
  <2>4. Bytes(SubSeq(blocks, 1, e)) = <<>>
    <3>1. SubSeq(blocks, 1, e) \in Seq(Blocks)
        BY <1>2, <1>3, SplitAt
    <3> QED BY <1>3, <3>1, NoBytes
  <2>5. Bytes(bs) = <<>> \o Bytes(hand') /\ hand' \in Seq(Blocks)
      BY <1>1, <2>2, <2>3, <2>4
  <2>6. <<>> \o Bytes(hand') = Bytes(hand')
      BY <2>5, BytesType, ConcatEmptySeq
  <2> QED BY <2>5, <2>6 DEF bs
<1>7. Bytes(hand) = <<>> /\ Bytes(blocks) \in Seq(Byte)
    BY <1>1, <1>2, HandEmpty, BytesType
<1>8. Unread = Bytes(blocks)
    BY <1>7, ConcatEmptySeq DEF Unread
<1>9. blocks' = d
  <2>1. blocks' = <<>> \o d
      BY <1>1 DEF Replace
  <2> HIDE DEF d
  <2> QED BY <1>5, <2>1, ConcatEmptySeq
<1>10. Bytes(blocks') = Bytes(d)
    BY <1>9
<1>11. Unread' = Unread
    BY <1>5, <1>6, <1>8, <1>10, UnreadNext
<1> QED BY <1>1, <1>11, Quietly DEF kept

LEMMA QreadCopyIsRead ==
    ASSUME QioInv, NEW r \in Reader, QreadCopy(r)
    PROVE  Stream!Next
<1> DEFINE x == Bytes(hand)
           bs == PutBack(want)
<1>1. /\ got' = SubSeq(x, 1, Smaller(want, blocklen(hand)))
      /\ Replace(0, bs) /\ hand' = <<>>
      /\ UNCHANGED <<kept, closed>>
    BY DEF QreadCopy
<1>2. /\ hand \in Seq(Blocks) /\ want \in Nat /\ blocks \in Seq(Blocks) /\ <<>> \in Seq(Byte)
      /\ Len(hand) /= 1 => blocklen(hand) <= want
    BY DEF QioInv, LenAccurate, QioTypeOK, HandFits
<1>3. x \in Seq(Byte) /\ Len(x) = blocklen(hand) /\ blocklen(hand) \in Nat
    BY <1>2, BytesType, BytesLength, BlockSums
<1>4. 0 \in 0 .. Len(blocks) /\ Bytes(SubSeq(blocks, 1, 0)) = <<>>
  <2>1. SubSeq(blocks, 1, 0) = <<>> /\ 0 \in 0 .. Len(blocks)
      BY <1>2, SubSeqEmpty, LenProperties
  <2> QED BY <2>1, BytesOfNone
<1>5. bs \in Seq(Blocks)
    BY <1>2, PutBackParts
<1>6. x \o Bytes(SubSeq(blocks, 1, 0)) = x
    BY <1>3, <1>4, ConcatEmptySeq
<1> HIDE DEF x
<1>7. got' \in Seq(Byte) /\ (blocklen(hand) <= want => got' = x) /\ \E rest \in Seq(Byte) : x = got' \o rest
  <2> DEFINE g == SubSeq(x, 1, Smaller(want, Len(x)))
  <2>1. g \in Seq(Byte) /\ (Len(x) <= want => g = x) /\ \E rest \in Seq(Byte) : x = g \o rest
      BY <1>2, <1>3, FirstAndOthers
  <2>2. got' = g
      BY <1>1, <1>3
  <2> HIDE DEF g
  <2> QED BY <1>3, <2>1, <2>2
<1>8. CASE Len(hand) = 1 /\ mode /= "msg"
  <2> DEFINE b == hand[1]
             l == LeftOver(b, want)
  <2>1. b \in Blocks /\ hand = <<b>>
    <3>1. hand \in Seq(Blocks) /\ Len(hand) = 1
        BY <1>2, <1>8
    <3> QED BY <3>1
  <2>2. bs = l
      BY <1>8 DEF PutBack
  <2> HIDE DEF b
  <2>3. x = b.data /\ blocklen(hand) = BLEN(b)
      BY <2>1, BytesOfOne, BlockSumsOne DEF x
  <2>4. x = got' \o Bytes(l)
    <3>1. b.data = SubSeq(b.data, 1, Smaller(want, BLEN(b))) \o Bytes(l)
        BY <1>2, <2>1, BytesOfLeftOver
    <3>2. got' = SubSeq(b.data, 1, Smaller(want, BLEN(b)))
        BY <1>1, <2>3
    <3> QED BY <2>3, <3>1, <3>2
  <2> HIDE DEF l, bs
  <2>5. Bytes(bs) \in Seq(Byte)
      BY <1>5, BytesType
  <2>6. x = got' \o (<<>> \o Bytes(bs))
      BY <2>2, <2>4, <2>5, ConcatEmptySeq
  <2>7. Bytes(hand) \o Bytes(SubSeq(blocks, 1, 0)) = got' \o (<<>> \o Bytes(bs))
      BY <1>6, <2>6 DEF x
  <2> QED BY <1>1, <1>2, <1>4, <1>5, <1>7, <2>7, TakesBytes
<1>9. CASE ~(Len(hand) = 1 /\ mode /= "msg")
  <2>1. bs = <<>>
      BY <1>9 DEF PutBack
  <2>2. Bytes(bs) = <<>>
      BY <2>1, BytesOfNone
  <2> HIDE DEF bs
  <2>3. PICK rest \in Seq(Byte) : x = got' \o rest /\ (rest = <<>> \/ mode = "msg")
    <3>1. CASE mode = "msg"
        BY <1>7, <3>1
    <3>2. CASE mode /= "msg"
      <4>1. got' = x
          BY <1>2, <1>7, <1>9, <3>2
      <4>2. x = got' \o <<>>
          BY <1>3, <4>1, ConcatEmptySeq
      <4> QED BY <1>2, <4>2
    <3> QED BY <3>1, <3>2
  <2>4. rest \o <<>> = rest
      BY ConcatEmptySeq
  <2>5. Bytes(hand) \o Bytes(SubSeq(blocks, 1, 0)) = got' \o (rest \o Bytes(bs))
      BY <1>6, <2>2, <2>3, <2>4 DEF x
  <2> QED BY <1>1, <1>4, <1>5, <1>7, <2>3, <2>5, TakesBytes
<1> QED BY <1>8, <1>9

LEMMA InitStream == QioInit => Stream!Init
<1> SUFFICES ASSUME QioInit PROVE Stream!Init
    OBVIOUS
<1>1. Bytes(hand) \o Bytes(blocks) = <<>> /\ closed = FALSE /\ got = <<>>
  <2>1. Bytes(hand) = <<>> /\ Bytes(blocks) = <<>>
      BY BytesOfNone DEF QioInit
  <2>2. <<>> \o <<>> = <<>>
      OBVIOUS
  <2> QED BY <2>1, <2>2 DEF QioInit
<1> QED BY <1>1 DEF Stream!Init

LEMMA StepStream == QioInv /\ [QioNext]_qvars => [Stream!Next]_(Stream!vars)
<1> SUFFICES ASSUME QioInv, [QioNext]_qvars PROVE Stream!Next \/ UNCHANGED Stream!vars
    OBVIOUS
<1>1. CASE UNCHANGED qvars
  <2>1. UNCHANGED <<kept, blocks, closed, hand, got>>
      BY <1>1 DEF qvars, kept
  <2> QED BY <2>1, NothingMoves
<1>2. ASSUME NEW r \in Reader, ReadCall(r) \/ ReadStep(r) \/ QreadInterrupted(r)
      PROVE  Stream!Next \/ UNCHANGED Stream!vars
    BY <1>2, NoBytesMove, QwaitIsReadEnd, QwaitIsQuiet, QreadIsQuiet, QreadCopyIsRead,
        QbreadIsRead DEF ReadStep, Actor
<1>3. ASSUME NEW w \in Writer,
             WriteStep(w) \/ WriteInterrupted(w) \/ \E d \in Data : Qbwrite(w, d)
      PROVE  Stream!Next \/ UNCHANGED Stream!vars
    BY <1>3, NoBytesMove, WriteIsWrite DEF WriteStep, Actor
<1>4. ASSUME NEW o \in Other, WakeStep(o) PROVE UNCHANGED Stream!vars
    BY <1>4, NoBytesMove DEF WakeStep, Actor
<1>5. ASSUME NEW o \in Handler,
             \/ QproduceFull(o) \/ Qget(o) \/ ConsumeNothing(o)
             \/ \E d \in Data : Qproduce(o, d) \/ Qpass(o, d) \/ Qiwrite(o, d)
             \/ \E n \in ReadSize : Qdiscard(o, n) \/ Qconsume(o, n)
      PROVE  Stream!Next \/ UNCHANGED Stream!vars
    BY <1>5, NoBytesMove, QgetIsRead, ConsumeNothingIsQuiet, WriteIsWrite, QdiscardIsRead,
        QconsumeIsRead DEF Other, Actor
<1>6. ASSUME NEW o \in Closer, Qclose(o) \/ Qhangup(o) \/ Qreopen(o) \/ Qflush(o)
      PROVE  Stream!Next
    BY <1>6, CloseIsClose
<1> QED BY <1>1, <1>2, <1>3, <1>4, <1>5, <1>6 DEF QioNext

(* A Queue is a stream of bytes: they come out in the order in which they  *)
(* went in, each one once, whatever is read, put back, closed or flushed.  *)
THEOREM QioImplementsStream == QioSpec => ImplementsStream
<1> QED BY InitStream, StepStream, InvQioInv, PTL DEF QioSpec, ImplementsStream, Stream!Spec
=============================================================================
