------------------------------- MODULE DBuf -------------------------------
(***************************************************************************)
(* The dynamic buffers of dbuf.c: the sendQ and recvQ of every connection  *)
(* as chains of fixed-size blocks, from a pool that all queues share and   *)
(* that BUFFERPOOL limits.  A call runs to its end before the next one,    *)
(* so each is one action; the loops inside are functions of their rounds.  *)
(* Block 0 is the NULL pointer.                                            *)
(***************************************************************************)
EXTENDS Integers, SequencesExt

CONSTANTS Queue,      \* the dbufs in use
          Byte,       \* the bytes they hold
          EndOfLine,  \* \n or \r
          DBUFSIZ,    \* bytes in a block
          Pool,       \* blocks that BUFFERPOOL allows
          MaxPut,     \* the longest put
          MaxGet      \* the longest get

DBufAssumption ==
  /\ Queue # {} /\ EndOfLine \in Byte
  /\ DBUFSIZ \in Nat \ {0} /\ Pool \in Nat /\ MaxPut \in Nat /\ MaxGet \in Nat

VARIABLES
  dbuf,  \* length, offset, head and tail of every queue
  mem,   \* next and data of the blocks, the freelist, dbufalloc, dbufblocks
  out,   \* the bytes that the last get or getmsg copied
  ret    \* the result of the last call and what it was asked for

bufVars == <<dbuf, mem, out, ret>>

Block == 1..Pool
NULL == 0
Least(a, b) == IF a < b THEN a ELSE b

Empty == [length |-> 0, offset |-> 0, head |-> NULL, tail |-> NULL]
BufInit ==
  /\ dbuf = [q \in Queue |-> Empty]
  /\ mem = [next |-> [b \in Block |-> NULL],
            data |-> [b \in Block |-> [i \in 0..DBUFSIZ-1 |-> EndOfLine]],
            freelist |-> << >>, dbufalloc |-> 0, dbufblocks |-> 0]
  /\ out = << >> /\ ret = [op |-> "none"]

(* The blocks of a chain that starts at b, in order.                       *)
Chain(m, b) ==
  LET at[n \in 0..Pool] ==
        IF n = 0 THEN b ELSE IF at[n-1] = NULL THEN NULL ELSE m.next[at[n-1]]
      length == CHOOSE n \in 0..Pool :
                  at[n] = NULL /\ \A i \in 0..n-1 : at[i] # NULL
  IN  [i \in 1..length |-> at[i-1]]

(* The bytes that are queued, read the way dbuf_map and dbuf_getmsg do.    *)
Content(d, m) ==
  LET chain == Chain(m, d.head) IN
  [k \in 1..d.length |->
     LET p == d.offset + k - 1
     IN  m.data[chain[p \div DBUFSIZ + 1]][p % DBUFSIZ]]

(***************************************************************************)
(* The pool: dbuf_alloc and dbuf_free.                                     *)
(***************************************************************************)
Alloc(m) ==
  CASE m.freelist # << >> ->
         [block |-> Head(m.freelist),
          mem |-> [m EXCEPT !.dbufalloc = @ + 1, !.freelist = Tail(@)]]
    [] m.freelist = << >> /\ m.dbufalloc + 1 > Pool ->
         [block |-> NULL, mem |-> m]
    [] OTHER ->
         [block |-> m.dbufblocks + 1,
          mem |-> [m EXCEPT !.dbufalloc = @ + 1, !.dbufblocks = @ + 1]]

Free(m, b) == [m EXCEPT !.dbufalloc = @ - 1, !.freelist = <<b>> \o @]

(***************************************************************************)
(* dbuf_put.                                                               *)
(***************************************************************************)
(* h, the place where the pointer to the next block is or goes.            *)
Deref(st) == CASE st.h.at = "head" -> st.d.head
               [] st.h.at = "tail" -> st.d.tail
               [] st.h.at = "next" -> st.m.next[st.h.of]

(* Wrong: tail is set only when the queue was empty.                       *)
Grow_KeepsTail(st, b, m) ==
  LET m1 == [m EXCEPT !.next[b] = NULL] IN
  IF st.h.at = "head" THEN [st EXCEPT !.d.head = b, !.d.tail = b, !.m = m1]
  ELSE [st EXCEPT !.m = [m1 EXCEPT !.next[st.h.of] = b]]

(* A new block b becomes the tail and goes where h points.                 *)
Grow(st, b, m) ==
  LET m1 == [m EXCEPT !.next[b] = NULL]
      d1 == [st.d EXCEPT !.tail = b]
  IN  IF st.h.at = "head" THEN [st EXCEPT !.d = [d1 EXCEPT !.head = b], !.m = m1]
      ELSE [st EXCEPT !.d = d1, !.m = [m1 EXCEPT !.next[st.h.of] = b]]

(* dbuf_malloc_error: the whole queue is scrapped, its blocks freed one    *)
(* after the other.                                                        *)
MallocError(st) ==
  LET chain == Chain(st.m, st.d.head) IN
  [st EXCEPT !.d = Empty, !.rest = << >>, !.failed = TRUE,
             !.m = [st.m EXCEPT !.freelist = Reverse(chain) \o @,
                                !.dbufalloc = @ - Len(chain)]]

(* One round of the loop: one block filled.                                *)
PutChunk(st) ==
  LET new == Alloc(st.m)
      grown == IF Deref(st) # NULL THEN st ELSE Grow(st, new.block, new.mem)
      b == IF Deref(st) # NULL THEN Deref(st) ELSE new.block
      chunk == Least(DBUFSIZ - st.off, Len(st.rest))
      filled == [i \in 0..DBUFSIZ-1 |->
                   IF i \in st.off..st.off+chunk-1 THEN st.rest[i-st.off+1]
                   ELSE st.m.data[b][i]]
  IN  IF Deref(st) = NULL /\ new.block = NULL THEN MallocError(st)
      ELSE [grown EXCEPT !.m.data[b] = filled, !.off = 0,
                         !.h = [at |-> "next", of |-> b],
                         !.rest = SubSeq(@, chunk + 1, Len(@))]

(* What n rounds make of st; one that finds nothing to do changes nothing. *)
Putting(st, n) ==
  LET at[i \in 0..n] ==
        IF i = 0 THEN st
        ELSE IF at[i-1].rest = << >> THEN at[i-1] ELSE PutChunk(at[i-1])
  IN at[n]

Put(q, buf) ==
  LET d == dbuf[q]
      off == (d.offset + d.length) % DBUFSIZ
      h == CASE d.length = 0 -> [at |-> "head", of |-> NULL]
             [] d.length > 0 /\ off > 0 -> [at |-> "tail", of |-> NULL]
             [] OTHER -> [at |-> "next", of |-> d.tail]
      st == Putting([d |-> [d EXCEPT !.length = @ + Len(buf)], m |-> mem,
                     h |-> h, off |-> off, rest |-> buf, failed |-> FALSE],
                    Len(buf))
  IN
  /\ dbuf' = [dbuf EXCEPT ![q] = st.d]
  /\ mem' = st.m
  /\ out' = << >>
  /\ ret' = [op |-> "put", result |-> IF st.failed THEN 0 ELSE 1]

(***************************************************************************)
(* dbuf_delete, dbuf_get and dbuf_getmsg.                                  *)
(***************************************************************************)

(* One round of the loop: bytes of the first block go, and the block too   *)
(* when it is used up or holds the last byte.                              *)
DeleteChunk(st) ==
  LET chunk == Least(DBUFSIZ - st.d.offset, st.n)
      d1 == [st.d EXCEPT !.offset = @ + chunk, !.length = @ - chunk]
  IN  IF d1.offset = DBUFSIZ \/ d1.length = 0
      THEN [d |-> [d1 EXCEPT !.head = st.m.next[d1.head], !.offset = 0],
            m |-> Free(st.m, d1.head), n |-> st.n - chunk]
      ELSE [st EXCEPT !.d = d1, !.n = @ - chunk]

Deleting(st, n) ==
  LET at[i \in 0..n] ==
        IF i = 0 THEN st
        ELSE IF at[i-1].n = 0 THEN at[i-1] ELSE DeleteChunk(at[i-1])
  IN at[n]

(* Queue d after the first n bytes, or all it has, were deleted.           *)
Deleted(d, m, n) ==
  LET st == Deleting([d |-> d, m |-> m, n |-> Least(n, d.length)], n)
  IN  IF st.d.head = NULL
      THEN [st EXCEPT !.d = [@ EXCEPT !.length = 0, !.tail = NULL]] ELSE st

Take(q, n) ==
  LET st == Deleted(dbuf[q], mem, n) IN
  /\ dbuf' = [dbuf EXCEPT ![q] = st.d]
  /\ mem' = st.m

Delete(q, n) ==
  /\ Take(q, n)
  /\ out' = << >> /\ ret' = [op |-> "delete"]

Get(q, n) ==
  /\ Take(q, n)
  /\ out' = SubSeq(Content(dbuf[q], mem), 1, Least(n, dbuf[q].length))
  /\ ret' = [op |-> "get"]

(* A line of k bytes, its end included, within the first n: what is copied *)
(* of it is limited by what is left of n after the scan has counted the    *)
(* k - 1 bytes before the end; empty lines at the front are deleted first. *)
GetMsg(q, n) ==
  LET s == Content(dbuf[q], mem)
      blank == CHOOSE b \in 0..Len(s) :
                 /\ \A i \in 1..b : s[i] = EndOfLine
                 /\ b < Len(s) => s[b+1] # EndOfLine
      line == SubSeq(s, blank + 1, Len(s))
      ends == {k \in 1..Least(n, Len(line)) : line[k] = EndOfLine}
      k == CHOOSE e \in ends : \A i \in ends : e <= i
  IN  IF ends = {}
      THEN /\ Take(q, blank)
           /\ out' = << >> /\ ret' = [op |-> "getmsg", result |-> 0]
      ELSE /\ Take(q, blank + k)
           /\ out' = SubSeq(line, 1, Least(k, n - (k - 1)))
           /\ ret' = [op |-> "getmsg", result |-> Least(k, n - (k - 1)),
                      line |-> k, room |-> n]

BufNext == \E q \in Queue :
  \/ \E n \in 1..MaxPut : \E buf \in [1..n -> Byte] : Put(q, buf)
  \/ \E n \in 1..MaxGet : Get(q, n) \/ Delete(q, n) \/ GetMsg(q, n)

BufSpec == BufInit /\ [][BufNext]_bufVars

(***************************************************************************)
(* Properties.                                                             *)
(***************************************************************************)
BufTypeOK ==
  /\ \A q \in Queue : /\ dbuf[q].length \in 0..Pool*DBUFSIZ
                      /\ dbuf[q].offset \in 0..DBUFSIZ-1
                      /\ dbuf[q].head \in {NULL} \cup Block
                      /\ dbuf[q].tail \in {NULL} \cup Block
  /\ mem.freelist \in Seq(Block)
  /\ mem.dbufalloc \in 0..Pool /\ mem.dbufblocks \in 0..Pool
  /\ out \in Seq(Byte)

ChainOf(q) == Chain(mem, dbuf[q].head)

(* Every block that was ever allocated is on the freelist or in the chain  *)
(* of one queue, once: none leaks, none is in two queues.  dbufalloc, what *)
(* BUFFERPOOL is compared with, counts the blocks in use.                  *)
BlocksOwned ==
  /\ IsInjective(mem.freelist) /\ \A q \in Queue : IsInjective(ChainOf(q))
  /\ \A q, r \in Queue : q # r => Range(ChainOf(q)) \cap Range(ChainOf(r)) = {}
  /\ \A q \in Queue : Range(ChainOf(q)) \cap Range(mem.freelist) = {}
  /\ 1..mem.dbufblocks =
       Range(mem.freelist) \cup UNION {Range(ChainOf(q)) : q \in Queue}
  /\ mem.dbufalloc = mem.dbufblocks - Len(mem.freelist)

(* head, tail, offset and length agree: the chain has exactly the blocks   *)
(* that the bytes need, and tail is the last of them.                      *)
ChainExact ==
  \A q \in Queue :
     LET d == dbuf[q] IN
     /\ Len(ChainOf(q)) = (d.offset + d.length + DBUFSIZ - 1) \div DBUFSIZ
     /\ d.tail = IF ChainOf(q) = << >> THEN NULL ELSE Last(ChainOf(q))
     /\ d.length = 0 => d.offset = 0

(* The queues implement streams of bytes.                                  *)
Bytes == INSTANCE ByteQueues WITH
  content <- [q \in Queue |-> Content(dbuf[q], mem)]
BytesSpec == Bytes!Spec

(* "copy as much as possible (determined by length) into buf": a line is   *)
(* cut short only when it does not fit.                                    *)
GetMsgFills ==
  ret.op = "getmsg" /\ ret.result > 0 =>
     ret.result = Least(ret.line, ret.room)
=============================================================================
