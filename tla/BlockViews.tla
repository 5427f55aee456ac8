----------------------------- MODULE BlockViews -----------------------------
(***************************************************************************)
(* What a buffer block shows of the file: copying, comparing and decoding  *)
(* over pages that are not next to each other in memory (BufferBlockImp5   *)
(* to Imp9) and the loops of the manager that cut a range of the file into *)
(* pages.  The operators follow the loops of the code; the properties      *)
(* compare them with the block's bytes as one sequence.                    *)
(*                                                                         *)
(* A block over pages begins at `start` of its first page and at 0 of the  *)
(* others; a block on the heap (page_num_ 0) is contiguous.  Reading past  *)
(* a page, or past the block, gives Wild: what is there belongs to others. *)
(***************************************************************************)
EXTENDS Integers, Sequences, FiniteSets, SequencesExt, FiniteSetsExt

CONSTANTS
  PageSize,   \* PAGE_SIZE_FILE = PAGE_SIZE_MEMORY
  Contents,   \* the byte sequences blocks are made of; bytes are not zero
  Others,     \* those of the right side of a comparison
  ObjSize,    \* sizeof(OBJ_Type)
  Offsets,    \* the offsets of the calls that take one
  MultiPage,  \* SetBlock is given blocks of several pages
  AnyLength   \* Compare is given a right block longer than the left one

\* What the constants have to be; the modules that instantiate this one assume it.
Parameters ==
  /\ PageSize \in Nat \ {0} /\ ObjSize \in 1 .. PageSize /\ Offsets \subseteq Nat
  /\ MultiPage \in BOOLEAN /\ AnyLength \in BOOLEAN

VARIABLES
  impl,          \* the class of the blocks: BufferBlockImp5, 6, 7 or 9
  left, right,   \* two blocks: [bytes, start, heap]
  off, num,      \* arguments of the call
  op, res        \* the last call and its result

vars == <<impl, left, right, off, num, op, res>>

Wild == 99
Blocks(C) == [bytes : C, start : 0 .. PageSize - 1, heap : {FALSE}]
               \union [bytes : C, start : {0}, heap : {TRUE}]
Size(b) == Len(b.bytes)
CeilDiv(a, n) == (a + n - 1) \div n
Less(a, b) == IF a < b THEN a ELSE b

-----------------------------------------------------------------------------
(* The layout of a block. *)

\* GetBlockSync: num_page.
PageNum(b) ==
  IF b.heap THEN 0
  ELSE IF b.start = 0 \/ Size(b) <= PageSize - b.start
       THEN CeilDiv(Size(b), PageSize)
       ELSE CeilDiv(Size(b) - (PageSize - b.start), PageSize) + 1

\* Which blocks the page loops are taken for: Imp6, Imp7 and Imp9 ask for several
\* pages, Imp5 for ptes_.
Several(b) == PageNum(b) > 1
OnPages(b) == ~b.heap

\* datas_[i]: the place in its page, and what is at distance o from it.
StartOf(b, i) == IF i = 0 THEN b.start ELSE 0
InPage(b, i, o) == PageSize - ((StartOf(b, i) + o) % PageSize)
At(b, i, o) ==
  LET pos == (IF i = 0 THEN 0 ELSE (PageSize - b.start) + (i - 1) * PageSize) + o
  IN IF pos < Size(b) /\ (b.heap \/ StartOf(b, i) + o < PageSize)
     THEN b.bytes[pos + 1] ELSE Wild
Slice(b, i, o, n) == [k \in 1 .. n |-> At(b, i, o + k - 1)]

-----------------------------------------------------------------------------
(* Copying. *)

\* The static Copy: a heap block with the bytes of every page.
CopyBytes(b, paged) ==
  LET n == PageNum(b)
      from[i \in 0 .. n, size_old \in 0 .. Size(b)] ==
        IF i = n THEN <<>>
        ELSE LET len == Less(InPage(b, i, 0), size_old)
             IN Slice(b, i, 0, len) \o from[i + 1, size_old - len]
  IN IF ~paged THEN Slice(b, 0, 0, Size(b)) ELSE from[0, Size(b)]

CopyBytes5(b) == CopyBytes(b, OnPages(b))
CopyBytes6(b) == CopyBytes(b, Several(b))
CopyBytes7(b) == CopyBytes(b, Several(b))

\* The first loop of Copy(buf, buf_size, offset): pages that are passed over, and
\* the rest of the offset; a page is not passed over if the offset is its end.
CopySkip(b, offset) ==
  LET n == PageNum(b)
      from[i \in 0 .. n, o \in 0 .. offset] ==
        IF i < n /\ o > InPage(b, i, 0) THEN from[i + 1, o - InPage(b, i, 0)] ELSE <<i, o>>
  IN from[0, offset]

CopyLen(b, n, offset) == IF n + offset > Size(b) THEN Size(b) ELSE n

\* The second loop; offset_t is not set to zero after the first page.
CopyPages(b, len, offset) ==
  LET n == PageNum(b)
      skip == CopySkip(b, offset)
      from[i \in 0 .. n, size_old \in 0 .. len] ==
        IF i = n THEN <<>>
        ELSE LET cut == Less(InPage(b, i, skip[2]), size_old)
             IN Slice(b, i, skip[2], cut)
                  \o (IF cut = size_old THEN <<>> ELSE from[i + 1, size_old - cut])
  IN from[skip[1], len]

\* Variant: the copy stops after the first page.
CopyOutFirst(b, n, offset) ==
  LET len == CopyLen(b, n, offset)
  IN Slice(b, 0, offset, IF ~Several(b) THEN len ELSE Less(InPage(b, 0, offset), len))

\* Copy(buf, buf_size, offset): what is written to buf.
CopyOut(b, n, offset) ==
  LET len == CopyLen(b, n, offset)
  IN IF ~Several(b) THEN Slice(b, 0, offset, len) ELSE CopyPages(b, len, offset)

CopyOut6(b, n, offset) == CopyOut(b, n, offset)
CopyOut7(b, n, offset) == CopyOut(b, n, offset)

\* BufferBlockImp5: the heap block writes to buf + offset and reads from its
\* beginning; a block of one page takes the loops.
CopyOut5(b, n, offset) ==
  LET len == CopyLen(b, n, offset)
  IN IF b.heap THEN [k \in 1 .. offset |-> Wild] \o Slice(b, 0, 0, len)
               ELSE CopyPages(b, len, offset)

-----------------------------------------------------------------------------
(* The manager's loops over the pages of a range. *)

\* Variant: fpage_offset is kept for the next page.
PiecesShifted(from, size) ==
  LET cut[p \in 0 .. from + size, o \in 0 .. PageSize, rest \in 0 .. size] ==
        IF rest = 0 THEN <<>>
        ELSE LET n == Less(PageSize - o, rest)
             IN <<[page |-> p, at |-> o, len |-> n]>> \o cut[p + 1, o, rest - n]
  IN cut[from \div PageSize, from % PageSize, size]

\* GetBlock and SetBlock with a char*: GetObject and SetObject move what is left
\* of the page, or of the block; the pieces cover [from, from + size).
Pieces(from, size) ==
  LET cut[p \in 0 .. from + size, o \in 0 .. PageSize, rest \in 0 .. size] ==
        IF rest = 0 THEN <<>>
        ELSE LET n == Less(PageSize - o, rest)
             IN <<[page |-> p, at |-> o, len |-> n]>> \o cut[p + 1, 0, rest - n]
  IN cut[from \div PageSize, from % PageSize, size]

\* SetBlock with a block: each page gets a Copy with the offset reached so far.
SetBlock(b, from) ==
  LET pieces == Pieces(from, Size(b))
      put[k \in 0 .. Len(pieces), done \in 0 .. Size(b)] ==
        IF k = Len(pieces) THEN <<>>
        ELSE CopyOut(b, pieces[k + 1].len, done) \o put[k + 1, done + pieces[k + 1].len]
  IN put[0, 0]

-----------------------------------------------------------------------------
(* Comparing. *)

Sign(x) == IF x < 0 THEN -1 ELSE IF x > 0 THEN 1 ELSE 0

\* strncmp of two sequences of n bytes that are not zero.
strncmp(s, t, n) ==
  LET diff == {k \in 1 .. n : s[k] # t[k]}
  IN IF diff = {} THEN 0 ELSE LET k == Min(diff) IN Sign(s[k] - t[k])

\* Variant: as in Copy, with > for >=.
SkipLate(b, offset) ==
  LET n == PageNum(b)
      from[i \in 0 .. n, o \in 0 .. offset] ==
        IF i < n /\ o > InPage(b, i, 0) THEN from[i + 1, o - InPage(b, i, 0)] ELSE <<i, o>>
  IN from[0, offset]

\* The skip loop of the comparisons passes over a page whose end is the offset.
Skip(b, offset) ==
  LET n == PageNum(b)
      from[i \in 0 .. n, o \in 0 .. offset] ==
        IF i < n /\ o >= InPage(b, i, 0) THEN from[i + 1, o - InPage(b, i, 0)] ELSE <<i, o>>
  IN from[0, offset]

\* The loop of the comparisons: page by page until a difference; none if the
\* offset is past every page, when the initial value of ret is returned.
ComparePages(b, s, size_left, offset, none) ==
  LET n == PageNum(b)
      skip == Skip(b, offset)
      from[i \in 0 .. n, rest \in 0 .. size_left, o \in 0 .. skip[2], ret \in {none, 0}] ==
        IF i = n THEN ret
        ELSE LET len == Less(InPage(b, i, o), rest)
                 c == strncmp(Slice(b, i, o, len), SubSeq(s, size_left - rest + 1, Len(s)), len)
             IN IF c # 0 THEN c ELSE from[i + 1, rest - len, 0, 0]
  IN from[skip[1], size_left, skip[2], none]

ByLength(b, s, offset, ret) ==
  IF ret = 0 /\ offset = 0 /\ Size(b) # Len(s) THEN Sign(Size(b) - Len(s)) ELSE ret

\* Compare(string_view, offset); `none` is what ret begins with.
CompareStr(b, s, offset, paged, none) ==
  LET size_left == Less(Size(b) - offset, Len(s))
  IN ByLength(b, s, offset,
       IF paged THEN ComparePages(b, s, size_left, offset, none)
                ELSE strncmp(Slice(b, 0, offset, size_left), s, size_left))

CompareStr5(b, s, offset) == CompareStr(b, s, offset, OnPages(b), 0)
CompareStr6(b, s, offset) == CompareStr(b, s, offset, Several(b), -10)
\* BufferBlockImp7 answers for an empty rest first.
CompareStr7(b, s, offset) ==
  IF Size(b) = 0 \/ offset = Size(b) THEN IF Len(s) = 0 THEN 0 ELSE -10
  ELSE CompareStr(b, s, offset, Several(b), -10)

\* Compare_inner: size_ - offset is unsigned, so an offset past the end leaves
\* all of the right side to compare.
CompareInner(b, s, offset, paged) ==
  LET size_left == IF offset > Size(b) THEN Len(s) ELSE Less(Size(b) - offset, Len(s))
  IN IF paged THEN ComparePages(b, s, size_left, offset, 0)
                       ELSE strncmp(Slice(b, 0, offset, size_left), s, size_left)

\* The pages of the right block: where each begins in the block, and its bytes.
RightPages(r) ==
  [i \in 0 .. PageNum(r) - 1 |->
     LET len_right == IF i = 0 THEN 0 ELSE (PageSize - r.start) + (i - 1) * PageSize
     IN [at |-> len_right, s |-> Slice(r, i, 0, Less(InPage(r, i, 0), Size(r) - len_right))]]

\* Both blocks over several pages: page by page of the right one.
CompareBoth(l, r) ==
  LET pages == RightPages(r)
      from[i \in 0 .. PageNum(r)] ==
        IF i = PageNum(r) THEN 0
        ELSE LET c == CompareInner(l, pages[i].s, pages[i].at, TRUE)
             IN IF c # 0 THEN c ELSE from[i + 1]
  IN from[0]

\* Compare(const BufferBlockImp9&).
CompareBlock(l, r) ==
  LET ret == IF Several(l) /\ Several(r) THEN CompareBoth(l, r)
             ELSE IF ~Several(r) THEN CompareInner(l, Slice(r, 0, 0, Size(r)), 0, Several(l))
             ELSE -CompareInner(r, Slice(l, 0, 0, Size(l)), 0, TRUE)
  IN IF ret = 0 THEN Sign(Size(l) - Size(r)) ELSE ret

CompareBlock6(l, r) == CompareBlock(l, r)
CompareBlock7(l, r) == CompareBlock(l, r)

\* BufferBlockImp5: the sides are told apart by ptes_.
CompareBlock5(l, r) ==
  LET ret == IF OnPages(l) /\ OnPages(r) THEN CompareBoth(l, r)
             ELSE IF OnPages(l) THEN CompareInner(l, Slice(r, 0, 0, Size(r)), 0, TRUE)
             ELSE -CompareInner(r, Slice(l, 0, 0, Size(l)), 0, OnPages(r))
  IN IF ret = 0 THEN Sign(Size(l) - Size(r)) ELSE ret

-----------------------------------------------------------------------------
(* Decoding: the place of the idx-th object. *)

PerPage == PageSize \div ObjSize

Decode(b, idx, paged) ==
  LET curpage == (PageSize - b.start) \div ObjSize
  IN IF ~paged \/ idx = 0 \/ curpage > idx
     THEN [page |-> 0, at |-> b.start + idx * ObjSize]
     ELSE [page |-> (idx - curpage) \div PerPage + 1,
           at |-> ((idx - curpage) % PerPage) * ObjSize]

Decode5(b, idx) == Decode(b, idx, OnPages(b))
Decode6(b, idx) == Decode(b, idx, Several(b))
Decode7(b, idx) == Decode(b, idx, Several(b))
\* The same walk for UpdateContent: the page is the one whose PTE is marked dirty.
DecodeWithPTE(b, idx) == Decode(b, idx, Several(b))
DecodeWithPTE7(b, idx) == Decode(b, idx, Several(b))

-----------------------------------------------------------------------------
(* The calls. *)

\* The places of the objects of a block: what the users of Decode count on.
Begins(b, p) == p.page * PageSize + p.at - b.start
Places(b) ==
  {p \in [page : 0 .. PageNum(b) - 1, at : 0 .. PageSize - ObjSize] :
     /\ p.at >= StartOf(b, p.page) /\ (p.at - StartOf(b, p.page)) % ObjSize = 0
     /\ Begins(b, p) + ObjSize <= Size(b)}

Init ==
  /\ impl \in {5, 6, 7, 9}
  /\ left \in Blocks(Contents) /\ right \in Blocks(Others)
  /\ off \in Offsets /\ num = 0
  /\ op = "none" /\ res = 0

Call(o, arg, r) == /\ op = "none" /\ op' = o /\ num' = arg /\ res' = r
                   /\ UNCHANGED <<impl, left, right, off>>

DoCopy ==
  \/ impl = 5 /\ Call("copy", 0, CopyBytes5(left))
  \/ impl = 6 /\ Call("copy", 0, CopyBytes6(left))
  \/ impl = 7 /\ Call("copy", 0, CopyBytes7(left))
  \/ impl = 9 /\ Call("copy", 0, CopyBytes(left, Several(left)))

DoCopyOut ==
  \E n \in 1 .. Size(left) :
    /\ off < Size(left)
    /\ \/ impl = 5 /\ Call("copyout", n, CopyOut5(left, n, off))
       \/ impl = 6 /\ Call("copyout", n, CopyOut6(left, n, off))
       \/ impl = 7 /\ Call("copyout", n, CopyOut7(left, n, off))
       \/ impl = 9 /\ Call("copyout", n, CopyOut(left, n, off))

\* The manager, with the blocks of the default build.
DoGetBlock ==
  /\ impl = 9
  /\ \E from \in 0 .. PageSize : Call("pieces", from, Pieces(from, Size(left)))

DoSetBlock ==
  /\ impl = 9 /\ (Several(left) => MultiPage)
  /\ \E from \in 0 .. PageSize : Call("setblock", from, SetBlock(left, from))

DoCompareStr ==
  \/ /\ impl = 5 /\ off < Size(left)
     /\ Call("compare", 0, CompareStr5(left, right.bytes, off))
  \/ /\ impl = 6 /\ off < Size(left)
     /\ Call("compare", 0, CompareStr6(left, right.bytes, off))
  \/ /\ impl = 7 /\ off <= Size(left)
     /\ Call("compare", 0, CompareStr7(left, right.bytes, off))
  \/ /\ impl = 9 /\ off < Size(left)
     /\ Call("compare", 0, CompareStr(left, right.bytes, off, Several(left), -10))

DoCompareBlock ==
  /\ Size(left) < Size(right) => AnyLength
  /\ \/ impl = 5 /\ Call("order", 0, CompareBlock5(left, right))
     \/ impl = 6 /\ Call("order", 0, CompareBlock6(left, right))
     \/ impl = 7 /\ Call("order", 0, CompareBlock7(left, right))
     \/ impl = 9 /\ Call("order", 0, CompareBlock(left, right))

\* Objects do not cross pages: the block begins at an object, and ends at one.
DoDecode ==
  /\ ~left.heap /\ left.start % ObjSize = 0 /\ left.start + ObjSize <= PageSize
  /\ \E idx \in 0 .. Cardinality(Places(left)) - 1 :
       \/ impl = 5 /\ Call("decode", idx, Decode5(left, idx))
       \/ impl = 6 /\ Call("decode", idx, Decode6(left, idx))
       \/ impl = 7 /\ Call("decode", idx, Decode7(left, idx))
       \/ impl = 9 /\ Call("decode", idx, Decode(left, idx, Several(left)))
       \/ impl = 7 /\ Call("update", idx, DecodeWithPTE7(left, idx))
       \/ impl = 9 /\ Call("update", idx, DecodeWithPTE(left, idx))

\* The answer is used and the next call made.
Again == op # "none" /\ op' = "none" /\ res' = 0 /\ num' = 0 /\ UNCHANGED <<impl, left, right, off>>

Next == DoCopy \/ DoCopyOut \/ DoGetBlock \/ DoSetBlock \/ DoCompareStr \/ DoCompareBlock
          \/ DoDecode \/ Again

Spec == Init /\ [][Next]_vars

-----------------------------------------------------------------------------
\* Every call answers with a value of its kind: bytes, pieces of pages, a sign or
\* a place in a page of the block.
TypeOK ==
  /\ impl \in {5, 6, 7, 9} /\ off \in Offsets /\ num \in Nat
  /\ left \in Blocks(Contents) /\ right \in Blocks(Others)
  /\ \/ op = "none" /\ res = 0
     \/ op \in {"copy", "copyout", "setblock"} /\ DOMAIN res = 1 .. Len(res)
     \/ op = "pieces" /\ \A k \in DOMAIN res : res[k].len \in 1 .. PageSize
     \/ op \in {"compare", "order"} /\ res \in {-10, -1, 0, 1}
     \/ op \in {"decode", "update"} /\ res \in [page : 0 .. PageNum(left) - 1, at : 0 .. PageSize - 1]

Part(s, from, n) == SubSeq(s, from + 1, from + n)

\* The static Copy makes a block with the same bytes, wherever the page
\* boundaries fall.
CopyKeepsBytes == op = "copy" => res = left.bytes

\* Copy(buf, buf_size, offset) fills buf with the bytes of the block from the
\* offset on, and writes no more than buf holds.
CopyOutRight ==
  op = "copyout" => res = Part(left.bytes, off, Less(num, Size(left) - off))

\* SetBlock writes the bytes of the block, in order, to the pages of its range.
SetBlockRight == op = "setblock" => res = left.bytes

\* The pieces GetBlock and SetBlock move are the range: each stays in its page and
\* begins where the one before it ended.
PiecesCover ==
  op = "pieces" =>
    LET place(k) == res[k].page * PageSize + res[k].at
        ends(k) == place(k) + res[k].len
    IN /\ \A k \in DOMAIN res : res[k].len > 0 /\ res[k].at + res[k].len <= PageSize
       /\ \A k \in DOMAIN res : place(k) = IF k = 1 THEN num ELSE ends(k - 1)
       /\ ends(Len(res)) = num + Size(left)

\* The order of byte strings, written down by itself.
Before(s, t) ==
  \E n \in 0 .. Len(s) :
    /\ n <= Len(t) /\ \A k \in 1 .. n : s[k] = t[k]
    /\ \/ n = Len(s) /\ n < Len(t)
       \/ n < Len(s) /\ n < Len(t) /\ s[n + 1] < t[n + 1]
Order(s, t) == IF s = t THEN 0 ELSE IF Before(s, t) THEN -1 ELSE 1

\* Compare with a string gives the order of the bytes; with an offset, it is zero
\* exactly if the rest of the block and the string agree as far as both go, and
\* the layout of the block does not matter.
CompareIsOrder ==
  op = "compare" =>
    LET rest == Part(left.bytes, off, Size(left) - off)
        n == Less(Len(rest), Size(right))
    IN IF off = 0 THEN Sign(res) = Order(left.bytes, right.bytes)
       ELSE IF rest = <<>> THEN res # 0
       ELSE Sign(res) = Order(Part(rest, 0, n), Part(right.bytes, 0, n))

\* Compare of two blocks gives the order of their bytes for every layout of both.
BlocksOrdered == op = "order" => Sign(res) = Order(left.bytes, right.bytes)

\* Compare_inner is asked about offsets inside the block, as it asserts.
InnerInside ==
  op = "order" /\ Several(left) /\ Several(right) =>
    \A i \in DOMAIN RightPages(right) :
      (\A j \in 0 .. i - 1 : CompareInner(left, RightPages(right)[j].s, RightPages(right)[j].at, TRUE) = 0)
        => RightPages(right)[i].at < Size(left)

\* Decode finds the idx-th object of the block in the page that holds it, which is
\* the page UpdateContent marks dirty.
DecodeRight ==
  op \in {"decode", "update"} =>
    /\ res \in Places(left)
    /\ Cardinality({p \in Places(left) : Begins(left, p) < Begins(left, res)}) = num
=============================================================================
