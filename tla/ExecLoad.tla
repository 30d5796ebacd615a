------------------------------ MODULE ExecLoad ------------------------------
(***************************************************************************)
(* The address arithmetic of loading an executable (src/userproc/load.rs): *)
(*   - load_segment, which installs one ELF LOAD segment as lazy pages:    *)
(*     an invalid PTE and an InFileLazyLoad SPT entry (file offset and     *)
(*     byte count) per page;                                               *)
(*   - init_user_stack, which copies argv onto the stack page and pushes   *)
(*     the pointer array and a dummy return address below the strings.     *)
(* Both are pure functions of their inputs, written here as operators     *)
(* that follow the code's loops, with PG_SIZE a constant.  Bytes are       *)
(* abstracted to what lands where: a string cell is <<"char", i, k>>,     *)
(* byte k of argv[i]; its terminator <<"nul", i>>; a pushed usize is       *)
(* <<"word", v>> at its lowest address.  PTE flags are not kept.           *)
(***************************************************************************)
EXTENDS Integers, Sequences, TLC

CONSTANTS
  PgSize,     \* PG_SIZE
  InitSp,     \* ExecInfo.init_sp, the user stack top (load.rs:72)
  StackVa     \* the kernel address of the frame alloc_frame gives the stack

ASSUME PgSize % 8 = 0 /\ InitSp % PgSize = 0 /\ StackVa % PgSize = 0

PageFloor(a) == a - (a % PgSize)             \* a & !PG_MASK
DivRoundUp(n, d) == (n + d - 1) \div d

-----------------------------------------------------------------------------
(* load_segment (load.rs:77-129).  One iteration of the loop maps page    *)
(* ubase + p * PG_SIZE to read readsz bytes at file offset readpos; the   *)
(* result is the pages installed and what the loop leaves in readbytes.  *)
RECURSIVE SegmentLoop(_, _, _, _, _, _)
SegmentLoop(ubase, p, pages, readpos, readbytes, maps) ==
  IF p = pages THEN [maps |-> maps, readbytes |-> readbytes]
  ELSE LET readsz == IF readbytes < PgSize THEN readbytes ELSE PgSize
       IN  SegmentLoop(ubase, p + 1, pages, readpos + readsz, readbytes - readsz,
                       Append(maps, [uaddr |-> ubase + p * PgSize,
                                     readpos |-> readpos, readsz |-> readsz]))

(* h is a program header: offset, vaddr, filesz, memsz.  ok is FALSE when *)
(* one of the two assert_eq! of load_segment panics the kernel.           *)
LoadSegmentUnalignedRead(h) ==
  LET pageoff == h.vaddr % PgSize
      loop == SegmentLoop(PageFloor(h.vaddr), 0, DivRoundUp(pageoff + h.memsz, PgSize),
                          h.offset, h.filesz + pageoff, <<>>)
  IN  [ok |-> h.offset % PgSize = pageoff /\ loop.readbytes = 0, maps |-> loop.maps]

LoadSegment(h) ==
  LET pageoff == h.vaddr % PgSize
      loop == SegmentLoop(PageFloor(h.vaddr), 0, DivRoundUp(pageoff + h.memsz, PgSize),
                          PageFloor(h.offset), h.filesz + pageoff, <<>>)
  IN  [ok   |-> h.offset % PgSize = pageoff /\ loop.readbytes = 0,
       maps |-> loop.maps]

-----------------------------------------------------------------------------
(* init_user_stack (load.rs:132-200).  StackTop is stack_va + PG_SIZE; a *)
(* kernel address a in the stack page is the user address ToUser(a).     *)
StackTop == StackVa + PgSize
ToUser(a) == InitSp - (StackTop - a)

NoCells == [a \in {} |-> <<>>]

(* The string loop (load.rs:163-176) over argv from its last element:    *)
(* copy argv[i] and its NUL below sp, record its user address in pos,    *)
(* and fail with ArgumentTooLong once sp drops below the page.           *)
RECURSIVE PushStrings(_, _, _, _, _)
PushStringsEndAtPage(argv, i, sp, pos, img) ==
  IF i = 0 THEN [ok |-> TRUE, sp |-> sp, pos |-> pos, img |-> img]
  ELSE LET nsp == sp - (argv[i] + 1)
       IN  IF nsp <= StackVa THEN [ok |-> FALSE, sp |-> nsp, pos |-> pos, img |-> img]
           ELSE PushStrings(argv, i - 1, nsp, Append(pos, ToUser(nsp)),
                  [a \in nsp .. nsp + argv[i] |->
                     IF a < nsp + argv[i] THEN <<"char", i, a - nsp>> ELSE <<"nul", i>>]
                  @@ img)

PushStrings(argv, i, sp, pos, img) ==
  IF i = 0 THEN [ok |-> TRUE, sp |-> sp, pos |-> pos, img |-> img]
  ELSE LET len == argv[i]
           nsp == sp - (len + 1)
       IN  IF nsp < StackVa THEN [ok |-> FALSE, sp |-> nsp, pos |-> pos, img |-> img]
           ELSE PushStrings(argv, i - 1, nsp, Append(pos, ToUser(nsp)),
                  [a \in nsp .. nsp + len |->
                     IF a < nsp + len THEN <<"char", i, a - nsp>> ELSE <<"nul", i>>]
                  @@ img)

(* push_stack (load.rs:153-159) over a sequence of values.                *)
RECURSIVE PushWords(_, _, _)
PushWords(sp, img, vals) ==
  IF vals = <<>> THEN [sp |-> sp, img |-> img]
  ELSE PushWords(sp - 8, (sp - 8 :> <<"word", Head(vals)>>) @@ img, Tail(vals))

(* The whole of init_user_stack: the strings, sp rounded down to 8, the   *)
(* NULL that ends argv, the string pointers, the dummy return address.   *)
(* sp is the init_sp it returns and ksp the same place in the kernel page.*)
InitUserStack(argv) ==
  LET s == PushStrings(argv, Len(argv), StackTop, <<>>, NoCells)
      w == PushWords(s.sp - (s.sp % 8), s.img, <<0>> \o s.pos \o <<0>>)
  IN  IF ~s.ok THEN [ok |-> FALSE, sp |-> 0, ksp |-> 0, img |-> NoCells]
      ELSE [ok |-> TRUE, sp |-> ToUser(w.sp), ksp |-> w.sp, img |-> w.img]

-----------------------------------------------------------------------------
(* The ELF rule for a LOAD segment: file and memory offsets agree modulo  *)
(* the page size and the file image fits in the memory image.             *)
WellFormed(h) ==
  /\ h.offset % PgSize = h.vaddr % PgSize
  /\ h.filesz <= h.memsz
  /\ h.memsz > 0

SegBytes(h) == h.vaddr .. h.vaddr + h.memsz - 1

(* The reference for load_segment: on a well-formed header it never      *)
(* trips its asserts, maps exactly the pages the segment's memory image   *)
(* touches, and the lazy read of each page (readsz bytes from readpos,    *)
(* the rest zero) puts file byte offset + (v - vaddr) at every address v  *)
(* below vaddr + filesz and zero at the rest of the segment.              *)
SegmentLaidOut(h) ==
  WellFormed(h) =>
    LET r == LoadSegment(h)
        At(v) == r.maps[CHOOSE i \in DOMAIN r.maps : r.maps[i].uaddr = PageFloor(v)]
    IN  /\ r.ok
        /\ {r.maps[i].uaddr : i \in DOMAIN r.maps} = {PageFloor(v) : v \in SegBytes(h)}
        /\ \A v \in SegBytes(h) :
             LET m == At(v)  k == v - m.uaddr IN
             IF v < h.vaddr + h.filesz
               THEN k < m.readsz /\ m.readpos + k = h.offset + (v - h.vaddr)
               ELSE k >= m.readsz

RECURSIVE StringBytes(_)
StringBytes(argv) == IF argv = <<>> THEN 0 ELSE Head(argv) + 1 + StringBytes(Tail(argv))

(* The reference for init_user_stack: it fails with ArgumentTooLong      *)
(* exactly when the strings and their NULs do not fit in the stack page.  *)
(* When it succeeds and its pointer block stays in the page, the returned *)
(* sp is 8-aligned, holds the dummy return address, sp + 8 (execute's a1) *)
(* is argv: one word per argument, then NULL, and argv[i] is the user     *)
(* address of an intact copy of argument i and its NUL.                   *)
ArgvLaidOut(argv) ==
  LET r == InitUserStack(argv)
      n == Len(argv)
      K(u) == u - InitSp + StackTop
      Str(i, u) == \A k \in 0 .. argv[i] :
                     /\ K(u) + k \in DOMAIN r.img
                     /\ r.img[K(u) + k] = IF k < argv[i] THEN <<"char", i, k>> ELSE <<"nul", i>>
  IN  /\ r.ok <=> StringBytes(argv) <= PgSize
      /\ r.ok /\ r.ksp >= StackVa =>
           /\ r.ksp % 8 = 0
           /\ r.sp = ToUser(r.ksp)
           /\ r.img[r.ksp] = <<"word", 0>>
           /\ r.img[r.ksp + 8 * (n + 1)] = <<"word", 0>>
           /\ \A i \in 1 .. n : LET e == r.img[r.ksp + 8 * i] IN e[1] = "word" /\ Str(i, e[2])
=============================================================================
