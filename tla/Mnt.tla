-------------------------------- MODULE Mnt --------------------------------
(***************************************************************************)
(* The mount driver, kernel/devices/sys/devmnt.c: processes make requests  *)
(* to one file server over one connection.  Every request has a Mntrpc     *)
(* with a tag, and replies come in any order.  There is no process of the  *)
(* driver's own: one of those that wait for replies (m->rip) reads them    *)
(* all, hands them out by tag, and passes the reading on when it has its   *)
(* own.                                                                    *)
(*                                                                         *)
(* A process that gets a note sends a Tflush for its request and waits for *)
(* the answer to that, because until then the server may still use the     *)
(* tag.  All processes take their Mntrpcs from one pool, mntalloc.  A      *)
(* Mntrpc has one tag as long as it exists, so here it is its tag; whether *)
(* a free one is on the list mntalloc.rpcfree or only its bit in           *)
(* mntalloc.tagmask is clear makes no difference.                          *)
(*                                                                         *)
(* What happens under lock(m) is one action; wakeups that come after       *)
(* unlock(m) are separate.  sleep and wakeup are atomic (Sleep.tla).       *)
(***************************************************************************)
EXTENDS Naturals, Sequences, FiniteSets, SequencesExt

CONSTANTS Proc,
          Tag,         \* enough of them: without a free one the kernel panics
          Pool,        \* [Proc -> the tags it can get], all of them in the kernel
          Noted,       \* the processes that get notes
          MaxFlush,    \* bound: how often a request is interrupted
          NoProc, NoTag

ASSUME MntAssumption ==
    /\ Pool \in [Proc -> SUBSET Tag]
    /\ Noted \subseteq Proc /\ MaxFlush \in Nat
    /\ NoProc \notin Proc /\ NoTag \notin Tag

VARIABLES
    rpcfree,     \* the tags of the Mntrpcs that are free
    queue,       \* the set of Mntrpcs on m->queue, which wait for a reply
    rip,         \* m->rip, the process that reads replies
    done,        \* [Tag -> r->done]
    reply,       \* [Tag -> r->reply: none, of a flushed request, of this very
                 \*  request or of another one]
    flushed,     \* [Tag -> r->flushed, the Mntrpc that this Tflush flushes]
    oldtag,      \* [Tag -> r->request.oldtag of a Tflush]
    depth,       \* [Tag -> how many Tflushes there are from r to the request]
    pc,          \* [Proc -> where it is]
    cur,         \* [Proc -> the r of mountio]
    mux,         \* [Proc -> the q that mountmux is about to wake]
    fails,       \* [Proc -> has mountio ended in an error?]
    asked,       \* [Tag -> the process whose request it is for]
    work,        \* the set of what the server has been sent and not answered
    replies,     \* what it has answered and nobody has read.  The field for of
                 \* either is the process whose request it is, and NoProc when
                 \* that request is over
    broken       \* is the connection hung up?

vars == <<rpcfree, queue, rip, done, reply, flushed, oldtag, depth, pc, cur, mux,
          fails, asked, work, replies, broken>>
links == <<flushed, oldtag, depth, asked>>
rpcs == <<rpcfree, done, reply, links>>
server == <<work, replies, broken>>

PcSet == {"idle", "write", "gate", "sleep", "asleep", "woken", "read", "wake",
          "flush", "free", "end"}

TypeOK ==
    /\ rpcfree \in SUBSET Tag /\ queue \in SUBSET Tag
    /\ rip \in Proc \cup {NoProc}
    /\ done \in [Tag -> BOOLEAN]
    /\ reply \in [Tag -> {"Tmax", "Rflush", "own", "other"}]
    /\ flushed \in [Tag -> Tag \cup {NoTag}]
    /\ oldtag \in [Tag -> Tag \cup {NoTag}]
    /\ depth \in [Tag -> Nat]
    /\ pc \in [Proc -> PcSet]
    /\ cur \in [Proc -> Tag \cup {NoTag}]
    /\ \A p \in Proc : cur[p] = NoTag <=> pc[p] = "idle"
    /\ mux \in [Proc -> Tag \cup {NoTag}]
    /\ fails \in [Proc -> BOOLEAN]
    /\ asked \in [Tag -> Proc \cup {NoProc}]
    /\ broken \in BOOLEAN

Init ==
    /\ rpcfree = Tag
    /\ queue = {}
    /\ rip = NoProc
    /\ done = [t \in Tag |-> TRUE]
    /\ reply = [t \in Tag |-> "Tmax"]
    /\ flushed = [t \in Tag |-> NoTag]
    /\ oldtag = [t \in Tag |-> NoTag]
    /\ depth = [t \in Tag |-> 0]
    /\ pc = [p \in Proc |-> "idle"]
    /\ cur = [p \in Proc |-> NoTag]
    /\ mux = [p \in Proc |-> NoTag]
    /\ fails = [p \in Proc |-> FALSE]
    /\ asked = [t \in Tag |-> NoProc]
    /\ work = {} /\ replies = <<>> /\ broken = FALSE

Goto(p, to) == pc' = [pc EXCEPT ![p] = to]

-----------------------------------------------------------------------------
(* mntralloc takes any free Mntrpc, or a new one with any free tag, and    *)
(* mountio puts it on m->queue.                                            *)
Begin(p, t) ==
    /\ rpcfree' = rpcfree \ {t}
    /\ queue' = queue \cup {t}
    /\ done' = [done EXCEPT ![t] = FALSE]
    /\ reply' = [reply EXCEPT ![t] = "Tmax"]
    /\ asked' = [asked EXCEPT ![t] = p]
    /\ cur' = [cur EXCEPT ![p] = t]
    /\ Goto(p, "write")

RpcCall(p) ==
    /\ pc[p] = "idle"
    /\ \E t \in rpcfree \cap Pool[p] : Begin(p, t)
    /\ UNCHANGED <<flushed, oldtag, depth, rip, mux, fails, server>>

(* mntflushalloc: a Tflush for the first request of the chain.             *)
FlushAlloc(p) ==
    LET r == cur[p] IN
    /\ pc[p] = "flush"
    /\ \E t \in rpcfree \cap Pool[p] :
          /\ Begin(p, t)
          /\ flushed' = [flushed EXCEPT ![t] = r]
          /\ oldtag' = [oldtag EXCEPT ![t] = IF flushed[r] = NoTag THEN r ELSE oldtag[r]]
          /\ depth' = [depth EXCEPT ![t] = depth[r] + 1]
    /\ UNCHANGED <<rip, mux, fails, server>>

(* A note can interrupt p, within the bound.                               *)
Interruptible(p) == p \in Noted /\ depth[cur[p]] < MaxFlush

(* The write of the request to the connection.  A note can interrupt it    *)
(* only after the request is written (qbwrite, Qio.tla).                   *)
Write(p) ==
    /\ pc[p] = "write"
    /\ ~broken
    /\ work' = work \cup {[tag |-> cur[p], for |-> p, depth |-> depth[cur[p]],
                            old |-> oldtag[cur[p]]]}
    /\ \/ Goto(p, "gate")
       \/ Interruptible(p) /\ Goto(p, "flush")
    /\ UNCHANGED <<rpcs, queue, rip, cur, mux, fails, replies, broken>>

(* An error that is not Eintr ends mountio.                                *)
WriteError(p) ==
    /\ pc[p] = "write"
    /\ broken
    /\ fails' = [fails EXCEPT ![p] = TRUE]
    /\ Goto(p, "free")
    /\ UNCHANGED <<rpcs, queue, rip, cur, mux, server>>

(* "Gate readers onto the mount point one at a time"                       *)
Gate(p) ==
    /\ pc[p] = "gate"
    /\ \/ rip = NoProc /\ rip' = p /\ Goto(p, "read")
       \/ rip /= NoProc /\ UNCHANGED rip /\ Goto(p, "sleep")
    /\ UNCHANGED <<rpcs, queue, cur, mux, fails, server>>

rpcattnDone(p) == done[cur[p]]

rpcattn(p) == done[cur[p]] \/ rip = NoProc

Sleep(p) ==
    /\ pc[p] = "sleep"
    /\ Goto(p, IF rpcattn(p) THEN "woken" ELSE "asleep")
    /\ UNCHANGED <<rpcs, queue, rip, cur, mux, fails, server>>

SleepInterruptedFrees(p) ==
    /\ pc[p] \in {"sleep", "asleep", "woken"}
    /\ Interruptible(p)
    /\ Goto(p, "free")
    /\ UNCHANGED <<rpcs, queue, rip, cur, mux, fails, server>>

(* sleep looks for a note when it begins and, whatever woke it, when it    *)
(* ends: r may be done by then, and is flushed all the same.               *)
SleepInterrupted(p) ==
    /\ pc[p] \in {"sleep", "asleep", "woken"}
    /\ Interruptible(p)
    /\ Goto(p, "flush")
    /\ UNCHANGED <<rpcs, queue, rip, cur, mux, fails, server>>

Woken(p) ==
    /\ pc[p] = "woken"
    /\ Goto(p, IF done[cur[p]] THEN "free" ELSE "gate")
    /\ UNCHANGED <<rpcs, queue, rip, cur, mux, fails, server>>

-----------------------------------------------------------------------------
(* mntgate: nobody reads, and a process of the queue that sleeps without   *)
(* its reply is woken (the first one; any one, here).  p goes on at next.  *)
SleepsOn(q, t) == pc[q] = "asleep" /\ cur[q] = t

Candidates == {q \in Proc : \E t \in queue : ~done[t] /\ SleepsOn(q, t)}

Mntgate(p, next) ==
    /\ rip' = NoProc
    /\ \/ Candidates = {} /\ Goto(p, next)
       \/ \E q \in Candidates : pc' = [pc EXCEPT ![p] = next, ![q] = "woken"]

(* The loop of the reader, until it has its own reply.  mntrpcread takes   *)
(* the next reply off the connection and puts it in the reader's own       *)
(* Mntrpc; mountmux gives it to the one in the queue that has its tag, and *)
(* will wake the owner after unlock(m).                                    *)
ReadOwnDone(p) ==
    /\ pc[p] = "read"
    /\ done[cur[p]]
    /\ Mntgate(p, "free")
    /\ UNCHANGED <<rpcs, queue, cur, mux, fails, server>>

Addressee(m) == queue \cap {m.tag}

Says(m, t) == IF m.tag = t /\ m.for = asked[t] THEN "own" ELSE "other"

Mountmux(p) ==
    /\ pc[p] = "read"
    /\ ~done[cur[p]]
    /\ replies /= <<>>
    /\ replies' = Tail(replies)
    /\ \/ /\ Addressee(Head(replies)) = {}           \* "unexpected reply tag"
          /\ reply' = [reply EXCEPT ![cur[p]] = Says(Head(replies), cur[p])]
          /\ UNCHANGED <<queue, done, pc, mux>>
       \/ \E t \in Addressee(Head(replies)) :
             /\ queue' = queue \ {t}
             /\ done' = [done EXCEPT ![t] = TRUE]
             /\ reply' = [reply EXCEPT ![cur[p]] = Says(Head(replies), cur[p]),
                                       ![t] = Says(Head(replies), t)]
             /\ IF t = cur[p] THEN UNCHANGED <<pc, mux>>
                ELSE Goto(p, "wake") /\ mux' = [mux EXCEPT ![p] = t]
    /\ UNCHANGED <<rpcfree, links, rip, cur, fails, work, broken>>

(* wakeup(&q->r), without lock(m): the owner may have seen done and freed  *)
(* q by now, and whoever has allocated it since gets the wakeup.           *)
MuxWakeup(p) ==
    /\ pc[p] = "wake"
    /\ pc' = [q \in Proc |-> IF q = p THEN "read"
                             ELSE IF SleepsOn(q, mux[p]) THEN "woken" ELSE pc[q]]
    /\ mux' = [mux EXCEPT ![p] = NoTag]
    /\ UNCHANGED <<rpcs, queue, rip, cur, fails, server>>

(* mntrpcread is interrupted while it waits, or fails: another process     *)
(* must go on reading.  The server sends well-formed messages, so it fails *)
(* only when the connection is hung up.                                    *)
ReadInterrupted(p) ==
    /\ pc[p] = "read"
    /\ ~done[cur[p]] /\ replies = <<>>
    /\ Interruptible(p)
    /\ Mntgate(p, "flush")
    /\ UNCHANGED <<rpcs, queue, cur, mux, fails, server>>

ReadError(p) ==
    /\ pc[p] = "read"
    /\ ~done[cur[p]] /\ replies = <<>>
    /\ broken
    /\ fails' = [fails EXCEPT ![p] = TRUE]
    /\ Mntgate(p, "free")
    /\ UNCHANGED <<rpcs, queue, cur, mux, server>>

-----------------------------------------------------------------------------
(* mntfree.  What a free Mntrpc says is not read before it is set again,   *)
(* and what is under way for its tag is for a request that is over.        *)
Over(m, t) == IF m.tag = t THEN [m EXCEPT !.for = NoProc] ELSE m

Mntfree(t) ==
    /\ rpcfree' = rpcfree \cup {t}
    /\ asked' = [asked EXCEPT ![t] = NoProc]
    /\ flushed' = [flushed EXCEPT ![t] = NoTag]
    /\ oldtag' = [oldtag EXCEPT ![t] = NoTag]
    /\ depth' = [depth EXCEPT ![t] = 0]
    /\ work' = {Over(m, t) : m \in work}
    /\ replies' = [i \in DOMAIN replies |-> Over(replies[i], t)]

FinalReplyAsIs(t) == reply[t]

(* What has not been answered is answered Rflush: the reader's own Mntrpc  *)
(* has the last reply that it read, for whomever.                          *)
FinalReply(t) == IF done[t] THEN reply[t] ELSE "Rflush"

(* mntflushfree, one Mntrpc of the chain: what has not been answered leaves *)
(* the queue (mntqrm), and all but the first request go back to the free   *)
(* list.                                                                   *)
Mntflushfree(p) ==
    LET t == cur[p] IN
    /\ pc[p] = "free"
    /\ queue' = queue \ {t}
    /\ reply' = [reply EXCEPT ![t] = IF flushed[t] /= NoTag THEN "Tmax" ELSE FinalReply(t)]
    /\ done' = [done EXCEPT ![t] = TRUE]
    /\ \/ /\ flushed[t] = NoTag
          /\ Goto(p, "end")
          /\ UNCHANGED <<rpcfree, links, cur, work, replies>>
       \/ /\ flushed[t] /= NoTag
          /\ Mntfree(t)
          /\ cur' = [cur EXCEPT ![p] = flushed[t]]
          /\ UNCHANGED pc
    /\ UNCHANGED <<rip, mux, fails, broken>>

(* mountrpc looks at the reply, and its caller calls mntfree.              *)
RpcReturn(p) ==
    /\ pc[p] = "end"
    /\ Mntfree(cur[p])
    /\ reply' = [reply EXCEPT ![cur[p]] = "Tmax"]
    /\ cur' = [cur EXCEPT ![p] = NoTag]
    /\ fails' = [fails EXCEPT ![p] = FALSE]
    /\ Goto(p, "idle")
    /\ UNCHANGED <<queue, rip, done, mux, broken>>

-----------------------------------------------------------------------------
(* The file server, as flush(5) describes it: it answers requests in any   *)
(* order, and a Tflush after it has answered or forgotten the old request, *)
(* several Tflushes of one request in their order.                         *)
Send(m) == replies' = Append(replies, [tag |-> m.tag, for |-> m.for])

Answer(m) ==
    /\ ~broken
    /\ m.old = NoTag
    /\ work' = work \ {m}
    /\ Send(m)
    /\ UNCHANGED <<rpcs, queue, rip, pc, cur, mux, fails, broken>>

AnswerFlush(m) ==
    /\ ~broken
    /\ m.old /= NoTag
    /\ \A k \in work : k.old = m.old => k.depth >= m.depth
    /\ work' = {k \in work : k.tag \notin {m.tag, m.old}}
    /\ Send(m)
    /\ UNCHANGED <<rpcs, queue, rip, pc, cur, mux, fails, broken>>

Hangup ==
    /\ ~broken
    /\ broken' = TRUE
    /\ work' = {}
    /\ UNCHANGED <<rpcs, queue, rip, pc, cur, mux, fails, replies>>
-----------------------------------------------------------------------------
Step(p) ==
    \/ FlushAlloc(p) \/ Write(p) \/ WriteError(p) \/ Gate(p) \/ Sleep(p) \/ Woken(p)
    \/ ReadOwnDone(p) \/ Mountmux(p) \/ MuxWakeup(p) \/ ReadError(p)
    \/ Mntflushfree(p) \/ RpcReturn(p)

Next ==
    \/ \E p \in Proc : RpcCall(p) \/ Step(p) \/ SleepInterrupted(p) \/ ReadInterrupted(p)
    \/ \E m \in work : Answer(m) \/ AnswerFlush(m)
    \/ Hangup

Spec == Init /\ [][Next]_vars

(* Processes inside mountio keep executing, and the server answers every   *)
(* request some time.                                                      *)
FairSpec ==
    /\ Spec
    /\ \A p \in Proc : WF_vars(Step(p))
    /\ \A t \in Tag : WF_vars(\E m \in work : m.tag = t /\ (Answer(m) \/ AnswerFlush(m)))

-----------------------------------------------------------------------------
(* A process gets the reply to the request it has made, or Rflush, or an   *)
(* error: never the reply to somebody else's request, that it read while   *)
(* it was the reader or that came for an earlier use of its tag.           *)
ReplyToRequester ==
    \A p \in Proc : pc[p] = "end" /\ ~fails[p] => reply[cur[p]] \in {"own", "Rflush"}

(* A tag is not used again while the server may still answer it: whatever  *)
(* is under way is for the request that has the tag now.  Not so after the *)
(* connection is hung up, when tags are given back without a flush.  And   *)
(* everybody inside mountio has a tag (TypeOK).                            *)
TagNotReused ==
    /\ TypeOK
    /\ ~broken =>
        \A m \in work \cup ToSet(replies) :
            m.tag \notin rpcfree /\ asked[m.tag] = m.for

(* Every request returns, unless the connection is hung up.                *)
RequestReturns == \A p \in Proc : []<>(pc[p] = "idle" \/ broken)
=============================================================================
