-------------------------------- MODULE Qio --------------------------------
(***************************************************************************)
(* The Queues of kernel/files/qio.c: a list of blocks of bytes between a   *)
(* producer and a consumer, each of which is either processes, which wait  *)
(* for data or room (qread, qbread, qbwrite), or interrupt handlers, which *)
(* do not (qproduce, qpass, qget, qconsume, ...).                          *)
(*                                                                         *)
(* The ilock of the Queue protects the list, the counters and the flags:   *)
(* what happens under it is one action.  The wakeup of the other side      *)
(* comes after iunlock, so anything can happen in between; and qread       *)
(* leaves the ilock while it copies the blocks it has taken, and puts back *)
(* what does not fit.  Qstarve says that the reader wants a wakeup, Qflow  *)
(* that the writer does.                                                   *)
(*                                                                         *)
(* use says who is at the two ends, as in the kernel: "pipe" processes at  *)
(* both (devpipe), "in" interrupts that produce for processes (uart input, *)
(* received packets), "out" processes that produce for interrupts and      *)
(* protocols (ethernet, tcp), "uart" processes and print() that produce    *)
(* for the interrupts of a serial line.  The kick functions of drivers are *)
(* left out: they call the operations that interrupts call here.  qwrite   *)
(* is a loop of qbwrite, that is, a writer that calls again.               *)
(***************************************************************************)
EXTENDS Naturals, Sequences, FiniteSets, SequencesExt, FiniteSetsExt

CONSTANTS Reader, Writer,
          Handler,        \* interrupt handlers
          Closer,         \* processes that close, open and flush the Queue
          Nobody,         \* a QLock that is not held
          Data,           \* what a write writes: sequences of bytes
          ReadSize,       \* how many bytes a read asks for
          Limit,          \* q->limit
          MaxBlocks,      \* bound: writers that are interrupted and write
                          \* again "will queue infinite crud"
          Eof, Hungup     \* the results 0 and error(q->err) of a read

Other == Handler \cup Closer
Actor == Reader \cup Writer \cup Other

Byte == UNION {Range(d) : d \in Data}

ASSUME QioAssumption ==
    /\ Reader \cap Writer = {} /\ Reader \cap Other = {} /\ Writer \cap Other = {}
    /\ Nobody \notin Actor
    /\ Limit \in Nat \ {0, 1} /\ MaxBlocks \in Nat
    /\ ReadSize \subseteq Nat \ {0}
    /\ Data \subseteq Seq(Byte)
    /\ Eof /= Hungup /\ Eof \notin Seq(Byte) /\ Hungup \notin Seq(Byte)

\* Who is at the ends, and the Qmsg or Qcoalesce that qopen was given.
Kinds == {<<"pipe", "bytes">>, <<"in", "bytes">>, <<"in", "msg">>, <<"in", "coalesce">>,
          <<"out", "bytes">>, <<"out", "msg">>, <<"uart", "bytes">>}

VARIABLES
    use, mode,        \* the kind of the Queue
    blocks,           \* from q->bfirst to q->blast
    len, dlen,        \* q->len and q->dlen
    starve, flow, closed, \* Qstarve, Qflow and Qclosed of q->state
    noblock,
    eof,              \* q->eof, up to the 4 that qwait tells from less
    rlock, wlock,     \* the owners of the QLocks
    at,               \* [Actor -> where it is]
    hand,             \* the blocks that a qread has taken and not copied
    want,             \* how many bytes that qread was asked for
    got               \* what the last read returned

qvars == <<use, mode, blocks, len, dlen, starve, flow, closed, noblock, eof,
          rlock, wlock, at, hand, want, got>>
kept == <<use, mode>>
list == <<blocks, len, dlen>>
reading == <<hand, want, got>>

Pcs == {"idle", "wait", "sleep", "asleep", "copy", "wakewr", "wakerr", "full", "flow", "both"}

-----------------------------------------------------------------------------
(* Blocks.  An allocated block is larger than what is written to it.       *)
Alloc(n) == n + 1

Block(d) == [data |-> d, alloc |-> Alloc(Len(d))]

BLEN(b) == Len(b.data)

Blocks == {b \in [data : Seq(Byte), alloc : Nat] : BLEN(b) <= b.alloc}

blockalloclen(bs) == SumFunction([i \in DOMAIN bs |-> bs[i].alloc])

blocklen(bs) == SumFunction([i \in DOMAIN bs |-> BLEN(bs[i])])

Bytes(bs) == FlattenSeq([i \in DOMAIN bs |-> bs[i].data])

Dropped(s, n) == SubSeq(s, n + 1, Len(s))

Smaller(m, n) == IF m < n THEN m ELSE n

-----------------------------------------------------------------------------
QioTypeOK ==
    /\ <<use, mode>> \in Kinds
    /\ blocks \in Seq(Blocks) /\ hand \in Seq(Blocks)
    /\ want \in Nat /\ got \in Seq(Byte) \cup {Eof, Hungup}
    /\ len \in Nat /\ dlen \in Nat
    /\ {starve, flow, closed, noblock} \subseteq BOOLEAN
    /\ eof \in 0 .. 4
    /\ rlock \in Reader \cup {Nobody} /\ wlock \in Writer \cup {Nobody}
    /\ at \in [Actor -> Pcs]
    /\ hand /= <<>> <=> \E r \in Reader : at[r] = "copy"

(* qopen, and qnoblock for some of the Queues that processes write.        *)
QioInit ==
    /\ \E k \in Kinds : use = k[1] /\ mode = k[2]
    /\ blocks = <<>> /\ len = 0 /\ dlen = 0
    /\ starve = TRUE /\ flow = FALSE /\ closed = FALSE
    /\ noblock \in IF use \in {"out", "uart"} THEN BOOLEAN ELSE {FALSE}
    /\ eof = 0
    /\ rlock = Nobody /\ wlock = Nobody
    /\ at = [a \in Actor |-> "idle"]
    /\ hand = <<>> /\ want = 0 /\ got = <<>>

Moves(a, to) == at' = [at EXCEPT ![a] = to]

(* The list loses its first k blocks and gets others in their place:       *)
(* qremove and qputback.                                                   *)
Replace(k, bs) ==
    LET gone == SubSeq(blocks, 1, k) IN
    /\ blocks' = bs \o Dropped(blocks, k)
    /\ len' = len - blockalloclen(gone) + blockalloclen(bs)
    /\ dlen' = dlen - blocklen(gone) + blocklen(bs)

(* qaddlist, and the same lines in every operation that produces: the      *)
(* block becomes q->blast, and a reader that wants a wakeup will get one.  *)
Add(a, d, next) ==
    /\ blocks' = Append(blocks, Block(d))
    /\ len' = len + Alloc(Len(d))
    /\ dlen' = dlen + Len(d)
    /\ starve' = FALSE
    /\ Moves(a, IF starve THEN "wakerr" ELSE next)

(* qwakeup_iunlock, and the same lines in qget, qconsume and qdiscard: "if *)
(* writer flow controlled, restart".  It tests the new length.             *)
RestartBelow(a, below, next) ==
    /\ flow' = (flow /\ len' >= below)
    /\ Moves(a, IF flow /\ len' < below THEN "wakewr" ELSE next)

Released(a, l) == IF l = a THEN Nobody ELSE l

-----------------------------------------------------------------------------
(* wakeup(&q->rr) and wakeup(&q->wr), which atomically find the process    *)
(* asleep or not (Sleep.tla).  A woken process looks again.                *)
Wake(side, to, a, next) ==
    at' = [b \in Actor |-> IF b = a THEN next
                           ELSE IF b \in side /\ at[b] = "asleep" THEN to ELSE at[b]]

WakeupReader(a) ==
    /\ at[a] \in {"wakerr", "both"}
    /\ Wake(Reader, "wait", a, IF at[a] = "both" THEN "wakewr"
                               ELSE IF a \in Writer THEN "full" ELSE "idle")
    /\ UNCHANGED <<kept, list, starve, flow, closed, noblock, eof, rlock, wlock, reading>>

WakeupWriter(a) ==
    /\ at[a] = "wakewr"
    /\ Wake(Writer, "full", a, "idle")
    /\ rlock' = Released(a, rlock)
    /\ UNCHANGED <<kept, list, starve, flow, closed, noblock, eof, wlock, reading>>

-----------------------------------------------------------------------------
(* Reading by a process: qread and qbread.                                 *)

notempty == closed \/ blocks /= <<>>

ReadCall(r) ==
    /\ use \in {"pipe", "in"}
    /\ at[r] = "idle"
    /\ rlock = Nobody
    /\ rlock' = r
    /\ Moves(r, "wait")
    /\ UNCHANGED <<kept, list, starve, flow, closed, noblock, eof, wlock, reading>>

ReadReturns(r, result) ==
    /\ rlock' = Nobody
    /\ got' = result
    /\ Moves(r, "idle")

(* "when coalescing, 0 length blocks just go away"                         *)
Empties ==
    IF mode /= "coalesce" THEN 0
    ELSE Max({k \in 0 .. Len(blocks) : blocklen(SubSeq(blocks, 1, k)) = 0})

(* qwait finds no block: the Queue is closed ...                           *)
QwaitClosed(r) ==
    /\ at[r] = "wait"
    /\ Empties = Len(blocks) /\ closed
    /\ Replace(Len(blocks), <<>>)
    /\ eof' = Smaller(eof + 1, 4)
    /\ \E result \in IF eof' > 3 THEN {Hungup} ELSE {Eof, Hungup} : ReadReturns(r, result)
    /\ UNCHANGED <<kept, starve, flow, closed, noblock, wlock, hand, want>>

(* ... or has to be waited for: "flag requesting producer to wake me".     *)
QwaitEmpty(r) ==
    /\ at[r] = "wait"
    /\ Empties = Len(blocks) /\ ~closed
    /\ Replace(Len(blocks), <<>>)
    /\ starve' = TRUE
    /\ Moves(r, "sleep")
    /\ UNCHANGED <<kept, flow, closed, noblock, eof, rlock, wlock, reading>>

(* sleep(&q->rr, notempty, q)                                              *)
ReadSleep(r) ==
    /\ at[r] = "sleep"
    /\ Moves(r, IF notempty THEN "wait" ELSE "asleep")
    /\ UNCHANGED <<kept, list, starve, flow, closed, noblock, eof, rlock, wlock, reading>>

(* A note: sleep calls error(Eintr), and waserror releases the QLock.      *)
QreadInterrupted(r) ==
    /\ at[r] \in {"sleep", "asleep"}
    /\ rlock' = Nobody
    /\ Moves(r, "idle")
    /\ UNCHANGED <<kept, list, starve, flow, closed, noblock, eof, wlock, reading>>

(* "grab the first block plus as many following blocks as will completely  *)
(* fit in the read" when coalescing; otherwise the first block.            *)
Grab(n) ==
    IF mode /= "coalesce" THEN 1
    ELSE Max({Empties + 1} \cup {k \in 1 .. Len(blocks) : blocklen(SubSeq(blocks, 1, k)) <= n})

(* qread takes blocks off the list and leaves the ilock.                   *)
Qread(r, n) ==
    /\ at[r] = "wait"
    /\ Empties < Len(blocks)
    /\ hand' = SubSeq(blocks, Empties + 1, Grab(n))
    /\ want' = n
    /\ Replace(Grab(n), <<>>)
    /\ Moves(r, "copy")
    /\ UNCHANGED <<kept, starve, flow, closed, noblock, eof, rlock, wlock, got>>

(* bl2mem without the ilock, then under it "any left over partial block"   *)
(* goes back to the front, or is freed in a message stream.                *)
LeftOver(b, n) == IF BLEN(b) > n THEN <<[b EXCEPT !.data = Dropped(@, n)]>> ELSE <<>>

LeftOverDouble(n) ==
    IF Len(hand) = 1 /\ mode /= "msg" THEN LeftOver(hand[1], n - 1) ELSE <<>>

PutBack(n) == IF Len(hand) = 1 /\ mode /= "msg" THEN LeftOver(hand[1], n) ELSE <<>>

QreadCopy(r) ==
    /\ at[r] = "copy"
    /\ got' = SubSeq(Bytes(hand), 1, Smaller(want, blocklen(hand)))
    /\ Replace(0, PutBack(want))
    /\ hand' = <<>> /\ want' = 0
    /\ RestartBelow(r, Limit \div 2, "idle")
    /\ rlock' = IF at'[r] = "idle" THEN Nobody ELSE rlock
    /\ UNCHANGED <<kept, starve, closed, noblock, eof, wlock>>

(* qbread: "split block if it's too big and this is not a message queue";  *)
(* what is put back is a new, smaller block.  It neither joins blocks nor  *)
(* skips empty ones, also when the Queue coalesces (tcp).                  *)
Qbread(r, n) ==
    /\ at[r] = "wait"
    /\ blocks /= <<>>
    /\ LET d == Head(blocks).data IN
       /\ got' = SubSeq(d, 1, Smaller(n, Len(d)))
       /\ Replace(1, IF Len(d) > n /\ mode /= "msg" THEN <<Block(Dropped(d, n))>> ELSE <<>>)
    /\ RestartBelow(r, Limit \div 2, "idle")
    /\ rlock' = IF at'[r] = "idle" THEN Nobody ELSE rlock
    /\ UNCHANGED <<kept, starve, closed, noblock, eof, wlock, hand, want>>

-----------------------------------------------------------------------------
(* Writing by a process: qbwrite, with wlock.                              *)

qnotfull == len < Limit \/ closed

(* The block is queued before the writer waits, unless the Queue is closed *)
(* (error) or it is full and must not block the writer (thrown away).      *)
Qbwrite(w, d) ==
    /\ use \in {"pipe", "out", "uart"}
    /\ at[w] = "idle"
    /\ wlock = Nobody
    /\ Len(blocks) < MaxBlocks
    /\ ~closed
    /\ ~(noblock /\ len >= Limit)
    /\ wlock' = w
    /\ Add(w, d, "full")
    /\ UNCHANGED <<kept, flow, closed, noblock, eof, rlock, reading>>

(* "flow control, wait for queue to get below the limit before allowing    *)
(* the process to continue and queue more"                                 *)
WriteReturns(w) ==
    /\ at[w] = "full"
    /\ noblock \/ qnotfull
    /\ wlock' = Nobody
    /\ Moves(w, "idle")
    /\ UNCHANGED <<kept, list, starve, flow, closed, noblock, eof, rlock, reading>>

(* The test is made without the ilock ...                                  *)
WriteFull(w) ==
    /\ at[w] = "full"
    /\ ~noblock /\ ~qnotfull
    /\ Moves(w, "flow")
    /\ UNCHANGED <<kept, list, starve, flow, closed, noblock, eof, rlock, wlock, reading>>

(* ... and the flag is set under it, without another look: by now the      *)
(* Queue may be empty, closed or open again.                               *)
WriteFlow(w) ==
    /\ at[w] = "flow"
    /\ flow' = TRUE
    /\ Moves(w, "sleep")
    /\ UNCHANGED <<kept, list, starve, closed, noblock, eof, rlock, wlock, reading>>

(* sleep(&q->wr, qnotfull, q)                                              *)
WriteSleep(w) ==
    /\ at[w] = "sleep"
    /\ Moves(w, IF qnotfull THEN "full" ELSE "asleep")
    /\ UNCHANGED <<kept, list, starve, flow, closed, noblock, eof, rlock, wlock, reading>>

WriteInterrupted(w) ==
    /\ at[w] \in {"sleep", "asleep"}
    /\ wlock' = Nobody
    /\ Moves(w, "idle")
    /\ UNCHANGED <<kept, list, starve, flow, closed, noblock, eof, rlock, reading>>

-----------------------------------------------------------------------------
(* Interrupt handlers.                                                     *)

(* qproduce when the Queue is full: nothing is queued.                     *)
QproduceFull(o) ==
    /\ use = "in" /\ at[o] = "idle"
    /\ len >= Limit
    /\ flow' = TRUE
    /\ UNCHANGED <<kept, list, starve, closed, noblock, eof, rlock, wlock, at, reading>>

(* qproduce does not look at Qclosed.                                      *)
Qproduce(o, d) ==
    /\ use = "in" /\ at[o] = "idle"
    /\ len < Limit /\ Len(blocks) < MaxBlocks
    /\ Add(o, d, "idle")
    /\ flow' = (flow \/ len' >= Limit)
    /\ UNCHANGED <<kept, closed, noblock, eof, rlock, wlock, reading>>

(* qpassnolim, and qpass, which frees the block when the Queue is full.    *)
(* Both do when it is closed.                                              *)
Qpass(o, d) ==
    /\ use = "in" /\ at[o] = "idle"
    /\ Len(blocks) < MaxBlocks
    /\ ~closed
    /\ Add(o, d, "idle")
    /\ flow' = (flow \/ len' >= Limit \div 2)
    /\ UNCHANGED <<kept, closed, noblock, eof, rlock, wlock, reading>>

(* qiwrite, for print(): no limit of its own below 16 kilobytes, no look   *)
(* at Qclosed, and Qflow stays as it is.                                   *)
Qiwrite(o, d) ==
    /\ use = "uart" /\ at[o] = "idle"
    /\ Len(blocks) < MaxBlocks
    /\ Add(o, d, "idle")
    /\ UNCHANGED <<kept, flow, closed, noblock, eof, rlock, wlock, reading>>

QgetNoWakeup(o) ==
    /\ use = "out" /\ at[o] = "idle"
    /\ blocks /= <<>>
    /\ got' = Head(blocks).data
    /\ Replace(1, <<>>)
    /\ flow' = (flow /\ len' >= Limit \div 2)
    /\ UNCHANGED <<kept, starve, closed, noblock, eof, rlock, wlock, at, hand, want>>

Qget(o) ==
    /\ use = "out" /\ at[o] = "idle"
    /\ blocks /= <<>>
    /\ got' = Head(blocks).data
    /\ Replace(1, <<>>)
    /\ RestartBelow(o, Limit \div 2, "idle")
    /\ UNCHANGED <<kept, starve, closed, noblock, eof, rlock, wlock, hand, want>>

(* The first blocks that n bytes cover, for qdiscard.                      *)
Covered(n) ==
    Max({k \in 0 .. Len(blocks) :
            /\ blocklen(SubSeq(blocks, 1, k)) <= n
            /\ k > 0 => blocklen(SubSeq(blocks, 1, k - 1)) < n})

(* qdiscard: n bytes, or all there are.  The writer restarts earlier.      *)
Qdiscard(o, n) ==
    LET k == Covered(n)
        more == n - blocklen(SubSeq(blocks, 1, k))
    IN
    /\ use = "out" /\ at[o] = "idle"
    /\ got' = SubSeq(Bytes(blocks), 1, Smaller(n, blocklen(blocks)))
    /\ IF more > 0 /\ k < Len(blocks) THEN Replace(k + 1, LeftOver(blocks[k + 1], more))
                                      ELSE Replace(k, <<>>)
    /\ RestartBelow(o, Limit, "idle")
    /\ UNCHANGED <<kept, starve, closed, noblock, eof, rlock, wlock, hand, want>>

(* qconsume: bytes of the first block that is not empty.                   *)
NotEmpty == {i \in DOMAIN blocks : BLEN(blocks[i]) > 0}

Qconsume(o, n) ==
    /\ use = "uart" /\ at[o] = "idle"
    /\ NotEmpty /= {}
    /\ LET b == blocks[Min(NotEmpty)] IN
       /\ got' = SubSeq(b.data, 1, Smaller(n, BLEN(b)))
       /\ Replace(Min(NotEmpty), LeftOver(b, n))
    /\ RestartBelow(o, Limit \div 2, "idle")
    /\ UNCHANGED <<kept, starve, closed, noblock, eof, rlock, wlock, hand, want>>

(* qget and qconsume when there is nothing, or only empty blocks, which    *)
(* qconsume throws away without a look at Qflow.                           *)
ConsumeNothing(o) ==
    /\ at[o] = "idle"
    /\ \/ use = "out" /\ blocks = <<>>
       \/ use = "uart" /\ NotEmpty = {}
    /\ Replace(Len(blocks), <<>>)
    /\ starve' = TRUE
    /\ UNCHANGED <<kept, flow, closed, noblock, eof, rlock, wlock, at, reading>>

-----------------------------------------------------------------------------
(* Closing.  Queued blocks are released by qclose, and kept by qhangup.    *)
Emptied == blocks' = <<>> /\ len' = 0 /\ dlen' = 0

QcloseKeepsLen(o) ==
    /\ at[o] = "idle"
    /\ closed' = TRUE /\ flow' = FALSE /\ starve' = FALSE /\ noblock' = FALSE
    /\ blocks' = <<>>
    /\ Moves(o, "both")
    /\ UNCHANGED <<kept, len, dlen, eof, rlock, wlock, reading>>

Qclose(o) ==
    /\ at[o] = "idle"
    /\ closed' = TRUE /\ flow' = FALSE /\ starve' = FALSE /\ noblock' = FALSE
    /\ Emptied
    /\ Moves(o, "both")
    /\ UNCHANGED <<kept, eof, rlock, wlock, reading>>

Qhangup(o) ==
    /\ at[o] = "idle"
    /\ closed' = TRUE
    /\ Moves(o, "both")
    /\ UNCHANGED <<kept, list, starve, flow, noblock, eof, rlock, wlock, reading>>

(* qreopen, for a new user: netif may reopen a file that others read, all  *)
(* others a Queue that nobody has open.                                    *)
Reopenable(o) ==
    /\ closed /\ at[o] = "idle"
    /\ use = "in" \/ (rlock = Nobody /\ wlock = Nobody)

QreopenForgetsStarve(o) ==
    /\ Reopenable(o)
    /\ closed' = FALSE /\ eof' = 0
    /\ UNCHANGED <<kept, list, starve, flow, noblock, rlock, wlock, at, reading>>

Qreopen(o) ==
    /\ Reopenable(o)
    /\ closed' = FALSE /\ starve' = TRUE /\ eof' = 0
    /\ UNCHANGED <<kept, list, flow, noblock, rlock, wlock, at, reading>>

(* qflush: of a serial line's output, and of tcp's input after qhangup.    *)
Qflush(o) ==
    /\ use = "uart" \/ (use = "in" /\ closed)
    /\ at[o] = "idle"
    /\ Emptied
    /\ Moves(o, "wakewr")
    /\ UNCHANGED <<kept, starve, flow, closed, noblock, eof, rlock, wlock, reading>>

-----------------------------------------------------------------------------
ReadStep(r) ==
    \/ QwaitClosed(r) \/ QwaitEmpty(r) \/ ReadSleep(r) \/ QreadCopy(r) \/ WakeupWriter(r)
    \/ \E n \in ReadSize : Qread(r, n) \/ Qbread(r, n)
WriteStep(w) ==
    WakeupReader(w) \/ WriteReturns(w) \/ WriteFull(w) \/ WriteFlow(w) \/ WriteSleep(w)
WakeStep(o) == WakeupReader(o) \/ WakeupWriter(o)

QioNext ==
    \/ \E r \in Reader : ReadCall(r) \/ ReadStep(r) \/ QreadInterrupted(r)
    \/ \E w \in Writer : \/ WriteStep(w) \/ WriteInterrupted(w)
                         \/ \E d \in Data : Qbwrite(w, d)
    \/ \E o \in Other : WakeStep(o)
    \/ \E o \in Handler :
          \/ QproduceFull(o) \/ Qget(o) \/ ConsumeNothing(o)
          \/ \E d \in Data : Qproduce(o, d) \/ Qpass(o, d) \/ Qiwrite(o, d)
          \/ \E n \in ReadSize : Qdiscard(o, n) \/ Qconsume(o, n)
    \/ \E o \in Closer : Qclose(o) \/ Qhangup(o) \/ Qreopen(o) \/ Qflush(o)

QioSpec == QioInit /\ [][QioNext]_qvars

(* Whoever is inside an operation keeps executing.  Nobody has to start    *)
(* one.                                                                    *)
QioFairSpec ==
    /\ QioSpec
    /\ \A r \in Reader : WF_qvars(ReadStep(r))
    /\ \A w \in Writer : WF_qvars(WriteStep(w))
    /\ \A o \in Other : WF_qvars(WakeStep(o))

-----------------------------------------------------------------------------
(* The counters of flow control tell the truth about the list, although    *)
(* qread takes blocks and puts them back across a qclose or qflush; and    *)
(* all variables have their types.                                         *)
LenAccurate == QioTypeOK /\ len = blockalloclen(blocks) /\ dlen = blocklen(blocks)

(* A reader that sleeps has left Qstarve to the next producer, with the    *)
(* Queue empty and open, or a wakeup(&q->rr) is on its way.                *)
ReaderHasHope ==
    \/ starve /\ ~notempty
    \/ \E a \in Actor : at[a] \in {"wakerr", "both"}

(* A writer that sleeps has left Qflow to whoever takes the Queue below    *)
(* half its limit, or a wakeup(&q->wr) is on its way.                      *)
WriterHasHope ==
    \/ flow /\ ~closed /\ (len >= Limit \div 2 \/ hand /= <<>>)
    \/ \E a \in Actor : at[a] \in {"wakewr", "both"}

(* No wakeup of a Queue is lost: whoever sleeps is sure that somebody will *)
(* wake it.  Not so the writers of serial lines, where print() fills the   *)
(* Queue without Qflow (qiwrite).                                          *)
SleeperWillBeWoken ==
    /\ (\E r \in Reader : at[r] = "asleep") => ReaderHasHope
    /\ use /= "uart" /\ (\E w \in Writer : at[w] = "asleep") => WriterHasHope

(* Nobody sleeps for ever with a reason to go on.                          *)
NoStuckSleeper ==
    /\ \A r \in Reader : []<>(at[r] /= "asleep" \/ ~notempty)
    /\ \A w \in Writer : []<>(at[w] /= "asleep" \/ use = "uart" \/
                              ~(closed \/ len < Limit \div 2))

(* A Queue is a stream of bytes: those in the list, after those a qread    *)
(* has taken and not copied yet.                                           *)
Stream == INSTANCE ByteStream WITH
    stream <- Bytes(hand) \o Bytes(blocks),
    framed <- mode = "msg",
    flushable <- use = "uart"

ImplementsStream == Stream!Spec
=============================================================================
