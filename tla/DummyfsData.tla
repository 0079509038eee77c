----------------------------- MODULE DummyfsData -----------------------------
(***************************************************************************)
(* The contents of dummyfs files and the memory budget they are paid from  *)
(* (dummyfs/dummyfs.c, memory.c). A file below a chunk is one allocation,  *)
(* a larger one a table of chunks that are mapped as they are written; a   *)
(* file that was only sized has no memory at all.                          *)
(*                                                                         *)
(* fs->mutex makes every request one step. A request is a chain of         *)
(* operators on a record s: the file's size and mem, the budget in use,    *)
(* how many allocations it has made (n) and which of them the system       *)
(* refuses (bad).                                                          *)
(***************************************************************************)
EXTENDS Integers, Sequences, FiniteSets, FiniteSetsExt, SequencesExt

CONSTANTS
  Files,      \* the files a client may create; each is written with its own value
  Symlinks,      \* those of them that are symbolic links
  Mapped,     \* those that are program images mapped at boot
  Val,        \* the value a file is written with
  Chunk,      \* DUMMYFS_CHUNKSZ
  ObjSz,      \* sizeof(dummyfs_object_t)
  NameSz,     \* the copy of an entry's name
  EntSz,      \* sizeof(dummyfs_dirent_t)
  PtrSz,      \* sizeof(void *)
  SizeMax,    \* DUMMYFS_SIZE_MAX
  Offs, Lens, \* offsets and lengths of writes
  Sizes,      \* sizes of truncations
  MaxSize,    \* bound: size of a file
  MaxBad      \* bound: allocations counted from the start of a request that may fail

VARIABLES
  obj,     \* the files by name: None or size, mem and whether still mapped
  used,    \* ctx->size
  want,    \* history: what each file should read as
  cut,     \* history: positions past the end that still hold what was cut off
  stale,   \* history: positions that came back with what had been cut off
  leaked,  \* history: memory of removed symbolic links
  dead     \* the server followed a pointer it should not have

vars == <<obj, used, want, cut, stale, leaked, dead>>

None  == [none |-> TRUE]
Null  == <<>>                                 \* a chunk that is not mapped
NoMem == [null |-> TRUE]                      \* o->data == NULL
Phys  == [phys |-> TRUE]                      \* memory mapped from a program image
Zeros == [k \in 1..Chunk |-> 0]

Cnt(size) == (size + Chunk - 1) \div Chunk    \* DUMMYFS_CHUNKCNT
Idx(offs) == offs \div Chunk + 1              \* DUMMYFS_CHUNKIDX, from 1

Small(bytes)  == [big |-> FALSE, at |-> bytes]
Big(chunks)   == [big |-> TRUE, at |-> chunks]
Zero(n)       == [k \in 1..n |-> 0]

-----------------------------------------------------------------------------
(* memory.c                                                                *)

Ok(s)     == s.err = "EOK"
Err(s, e) == [s EXCEPT !.err = e]
Then(s, Op(_)) == IF Ok(s) THEN Op(s) ELSE s

\* dummyfs_malloc, dummyfs_calloc, dummyfs_mmap: k bytes.
Alloc(s, k) ==
  IF s.used + k > SizeMax \/ s.n + 1 \in s.bad THEN Err([s EXCEPT !.n = @ + 1], "ENOMEM")
  ELSE [s EXCEPT !.n = @ + 1, !.used = @ + k]

\* dummyfs_free, dummyfs_munmap
Free(s, k) == [s EXCEPT !.used = @ - k]

\* dummyfs_realloc; the system never refuses to make an allocation smaller.
Realloc(s, osize, nsize) ==
  IF nsize = 0 THEN Free(s, osize)
  ELSE IF s.used - osize + nsize > SizeMax \/ (nsize > osize /\ s.n + 1 \in s.bad)
  THEN Err([s EXCEPT !.n = @ + 1], "ENOMEM")
  ELSE [s EXCEPT !.n = @ + 1, !.used = @ - osize + nsize]

-----------------------------------------------------------------------------
(* _dummyfs_truncateObject                                                 *)

Sized(s, size) == [s EXCEPT !.size = size]

\* A small file becomes a big one.
Enlarge(s, size) ==
  Then(Alloc(s, Chunk), LAMBDA p :
    LET t == Alloc(p, PtrSz * Cnt(size))
    IN IF ~Ok(t) THEN Free(t, Chunk)
       ELSE [Free(t, s.size) EXCEPT
               !.size = size,
               !.mem = Big([i \in 1..Cnt(size) |->
                              IF i = 1 THEN [k \in 1..Chunk |-> IF k <= s.size THEN s.mem.at[k] ELSE 0]
                              ELSE Null])])

\* Mutant of ResizeSmall: what the file grows by is not cleared.
ResizeSmallRaw(s, size) ==
  Then(Realloc(s, s.size, size), LAMBDA t :
    [t EXCEPT !.size = size,
              !.mem = IF size = 0 THEN NoMem
                      ELSE Small([k \in 1..size |-> IF k <= s.size THEN s.mem.at[k] ELSE -1])])

\* A small file stays one.
ResizeSmall(s, size) ==
  Then(Realloc(s, s.size, size), LAMBDA t :
    [t EXCEPT !.size = size,
              !.mem = IF size = 0 THEN NoMem
                      ELSE Small([k \in 1..size |-> IF k <= s.size THEN s.mem.at[k] ELSE 0])])

\* The chunks of numbers is that are mapped.
MappedIn(s, is) == {i \in is : s.mem.at[i] # Null}
UnmapAll(s, is) == Free(s, Chunk * Cardinality(MappedIn(s, is)))

\* A big file becomes a small one. Its first chunk may never have been written:
\* then the copy reads through a null pointer.
Shrink(s, size) ==
  Then(IF size = 0 THEN s ELSE Alloc(s, size), LAMBDA t :
    IF size # 0 /\ s.mem.at[1] = Null THEN [t EXCEPT !.dead = TRUE]
    ELSE [Free(UnmapAll(t, 1..Cnt(s.size)), PtrSz * Cnt(s.size)) EXCEPT
            !.size = size,
            !.mem = IF size = 0 THEN NoMem ELSE Small(SubSeq(s.mem.at[1], 1, size))])

\* Mutant of ResizeBig: chunks past the new end stay mapped.
ResizeBigKeeps(s, size) ==
  IF Cnt(size) = Cnt(s.size) THEN Sized(s, size)
  ELSE Then(Realloc(s, PtrSz * Cnt(s.size), PtrSz * Cnt(size)), LAMBDA t :
         [t EXCEPT !.size = size,
                   !.mem = Big([i \in 1..Cnt(size) |-> IF i <= Cnt(s.size) THEN s.mem.at[i] ELSE Null])])

\* A big file stays one. What lies past the end in the last chunk is kept.
ResizeBig(s, size) ==
  IF Cnt(size) = Cnt(s.size) THEN Sized(s, size)
  ELSE Then(Realloc(UnmapAll(s, (Cnt(size) + 1)..Cnt(s.size)),
                    PtrSz * Cnt(s.size), PtrSz * Cnt(size)), LAMBDA t :
         [t EXCEPT !.size = size,
                   !.mem = Big([i \in 1..Cnt(size) |-> IF i <= Cnt(s.size) THEN s.mem.at[i] ELSE Null])])

\* The memory of a file that was mapped at boot is only given back whole.
truncateObject(s, size) ==
  IF size = s.size \/ s.mem = NoMem THEN Sized(s, size)
  ELSE IF s.mapped THEN IF size # 0 THEN Err(s, "EINVAL") ELSE [s EXCEPT !.mem = NoMem]
  ELSE IF s.size < Chunk
  THEN IF size >= Chunk THEN Enlarge(s, size) ELSE ResizeSmall(s, size)
  ELSE IF size < Chunk THEN Shrink(s, size) ELSE ResizeBig(s, size)

-----------------------------------------------------------------------------
(* _dummyfs_writeObject, dummyfs_read                                      *)

\* A failed write gives back what it added to the size; that may fail too.
Undone(s, size) == Err(truncateObject(Err(s, "EOK"), size), "ENOMEM")

WriteSmall(s, offs, len, val, oldsz) ==
  LET t == IF s.mem = NoMem
           THEN Then(Alloc(s, s.size), LAMBDA a : [a EXCEPT !.mem = Small(Zero(a.size))])
           ELSE s
  IN IF ~Ok(t) THEN Undone(t, oldsz)
     ELSE [t EXCEPT !.mem.at = [k \in DOMAIN @ |-> IF offs < k /\ k <= offs + len THEN val ELSE @[k]]]

\* The chunks from number i to number last, all mapped before any is written.
MapChunks(s, i, last) ==
  LET upto[j \in Nat] ==
        IF j < i THEN s
        ELSE Then(upto[j - 1], LAMBDA t :
               IF t.mem.at[j] # Null THEN t
               ELSE Then(Alloc(t, Chunk), LAMBDA a : [a EXCEPT !.mem.at[j] = Zeros]))
  IN upto[last]

WriteBig(s, offs, len, val, oldsz) ==
  LET t == IF s.mem = NoMem
           THEN Then(Alloc(s, PtrSz * Cnt(s.size)), LAMBDA a :
                  [a EXCEPT !.mem = Big([i \in 1..Cnt(a.size) |-> Null])])
           ELSE s
      u == Then(t, LAMBDA a : MapChunks(a, Idx(offs), Idx(offs + len - 1)))
      byte(i, k) == (i - 1) * Chunk + k
  IN IF ~Ok(u) THEN Undone(u, oldsz)
     ELSE [u EXCEPT !.mem.at = [i \in DOMAIN @ |->
             IF @[i] = Null THEN Null
             ELSE [k \in 1..Chunk |->
                     IF offs < byte(i, k) /\ byte(i, k) <= offs + len THEN val ELSE @[i][k]]]]

writeObject(s, offs, len, val) ==
  IF s.mapped THEN Err(s, "EPERM")
  ELSE Then(IF offs + len > s.size THEN truncateObject(s, offs + len) ELSE s, LAMBDA t :
         IF t.dead THEN t
         ELSE IF t.size < Chunk THEN WriteSmall(t, offs, len, val, s.size)
         ELSE WriteBig(t, offs, len, val, s.size))

\* What dummyfs_read of the whole file returns.
Content(o) ==
  [p \in 1..o.size |->
     IF o.mem = NoMem THEN 0
     ELSE IF ~o.mem.big THEN o.mem.at[p]
     ELSE LET c == o.mem.at[Idx(p - 1)] IN IF c = Null THEN 0 ELSE c[((p - 1) % Chunk) + 1]]

-----------------------------------------------------------------------------
(* Requests                                                                *)

New == [size |-> 0, mem |-> NoMem, mapped |-> FALSE]
Request(f, bad) ==
  LET o == IF obj[f] = None THEN New ELSE obj[f]
  IN [size |-> o.size, mem |-> o.mem, mapped |-> o.mapped,
      used |-> used, n |-> 0, bad |-> bad, err |-> "EOK", dead |-> FALSE]

Object(s) == [size |-> s.size, mem |-> s.mem, mapped |-> s.mapped]

\* A mapped file whose mode was changed is taken for one of the file system's own.
Loose(f) == obj[f].mem = Phys /\ ~obj[f].mapped

Live(f) == ~dead /\ obj[f] # None

\* Object, then its entry: the name and the record (dummyfs_object_create,
\* dummyfs_dir_add). What was taken is given back if a later part fails.
Created(s) ==
  Then(Alloc(s, ObjSz), LAMBDA o :
    LET n == Alloc(o, NameSz)
        e == Then(n, LAMBDA t : Alloc(t, EntSz))
    IN IF Ok(e) THEN e ELSE IF Ok(n) THEN Free(e, NameSz + ObjSz) ELSE Free(n, ObjSz))

\* dir_removeEntry and _dummyfs_destroy; a link keeps its memory.
Destroyed(s, f) ==
  Free(IF f \in Symlinks THEN s ELSE truncateObject(s, 0), ObjSz + NameSz + EntSz)

create(f, target, bad) ==
  /\ ~dead /\ obj[f] = None
  /\ LET c == Created(Request(f, bad))
         t == IF f \in Symlinks THEN Then(c, LAMBDA a : writeObject(a, 0, target, Val[f])) ELSE c
         s == IF Ok(c) /\ ~Ok(t) THEN Err(Destroyed(t, f), "EIO") ELSE t
     IN /\ used' = s.used
        /\ dead' = s.dead
        /\ obj' = [obj EXCEPT ![f] = IF ~Ok(s) THEN None
                     ELSE IF f \in Mapped THEN [size |-> MaxSize, mem |-> Phys, mapped |-> TRUE]
                     ELSE Object(s)]
        /\ want' = [want EXCEPT ![f] = IF Ok(s) /\ f \in Symlinks THEN [k \in 1..target |-> Val[f]] ELSE <<>>]
  /\ UNCHANGED <<cut, stale, leaked>>

\* The positions past size that its last chunk still holds, of those in ps.
Kept(ps, size) == {p \in ps : size >= Chunk /\ p > size /\ Idx(p - 1) = Idx(size - 1)}

\* The file is as s leaves it; ps are the positions it wrote.
Changed(f, s, ps) ==
  /\ obj' = [obj EXCEPT ![f] = Object(s)]
  /\ used' = s.used
  /\ dead' = s.dead
  /\ cut' = [cut EXCEPT ![f] = Kept(@ \cup ((s.size + 1)..obj[f].size), s.size)]
  /\ stale' = [stale EXCEPT ![f] = ((@ \cup cut[f]) \cap (1..s.size)) \ ps]
  /\ want' = [want EXCEPT ![f] = [p \in 1..s.size |->
                IF p \in ps THEN Val[f] ELSE IF p <= Len(@) THEN @[p] ELSE 0]]
  /\ UNCHANGED leaked

\* dummyfs_write; with O_APPEND the offset is the file's size, one of the offs.
write(f, offs, len, bad) ==
  /\ Live(f) /\ obj[f].mem # Phys
  /\ offs + len <= MaxSize
  /\ LET s == writeObject(Request(f, bad), offs, len, Val[f])
     IN Changed(f, s, IF Ok(s) THEN (offs + 1)..(offs + len) ELSE {})

\* dummyfs_truncate, and dummyfs_setattr of atSize. A link is refused.
truncate(f, size, bad) ==
  /\ Live(f) /\ obj[f].mem # Phys /\ f \notin Symlinks
  /\ Changed(f, truncateObject(Request(f, bad), size), {})

\* dummyfs_setattr of atMode changes the mode that marks a mapped file.
setattrMode(f) ==
  /\ Live(f) /\ obj[f].mapped
  /\ obj' = [obj EXCEPT ![f].mapped = FALSE]
  /\ UNCHANGED <<used, want, cut, stale, leaked, dead>>

\* Writing, sizing or removing it then gives memory back that was never taken.
useLoose(f) ==
  /\ Live(f) /\ Loose(f)
  /\ dead' = TRUE
  /\ UNCHANGED <<obj, used, want, cut, stale, leaked>>

HeldBy(o) ==
  IF o.mem \in {NoMem, Phys} THEN 0
  ELSE IF ~o.mem.big THEN Len(o.mem.at)
  ELSE PtrSz * Len(o.mem.at) + Chunk * Cardinality({i \in DOMAIN o.mem.at : o.mem.at[i] # Null})

\* dummyfs_unlink of the last name of a file nobody holds open.
unlink(f) ==
  /\ Live(f) /\ ~Loose(f)
  /\ LET s == Destroyed(Request(f, {}), f)
     IN used' = s.used /\ dead' = s.dead
  /\ obj' = [obj EXCEPT ![f] = None]
  /\ leaked' = leaked + (IF f \in Symlinks THEN HeldBy(obj[f]) ELSE 0)
  /\ want' = [want EXCEPT ![f] = <<>>]
  /\ cut' = [cut EXCEPT ![f] = {}]
  /\ stale' = [stale EXCEPT ![f] = {}]

\* One allocation of a request fails, or all from one on.
Bad == {{}} \cup {{k} : k \in 1..MaxBad} \cup {k..MaxBad : k \in 1..MaxBad}

Init ==
  /\ obj = [f \in Files |-> None]
  /\ used = 0 /\ leaked = 0 /\ dead = FALSE
  /\ want = [f \in Files |-> <<>>]
  /\ cut = [f \in Files |-> {}] /\ stale = [f \in Files |-> {}]

Next ==
  \E f \in Files :
    \/ \E bad \in Bad :
         \/ create(f, Chunk - 1, bad)
         \/ \E offs \in Offs, len \in Lens : write(f, offs, len, bad)
         \/ \E size \in Sizes : truncate(f, size, bad)
    \/ setattrMode(f)
    \/ useLoose(f)
    \/ unlink(f)

Spec == Init /\ [][Next]_vars

-----------------------------------------------------------------------------
(* Properties                                                              *)

\* ctx->size is what the file system holds, whatever failed on the way
\* (memory.c), and stays within DUMMYFS_SIZE_MAX; only the targets of removed
\* symbolic links, which _dummyfs_destroy does not free, are paid for ever.
BudgetExact ==
  ~dead =>
    /\ used = leaked + MapThenSumSet(LAMBDA f : ObjSz + NameSz + EntSz + HeldBy(obj[f]),
                                     {f \in Files : obj[f] # None})
    /\ used <= SizeMax

\* A file reads as it was written, zeros where it was not, through every change
\* between small and big, and a request that fails leaves it so (dummyfs_read,
\* _dummyfs_writeObject). Bytes cut off a last chunk may come back.
ReadsBack ==
  ~dead => \A f \in Files :
    obj[f] # None /\ obj[f].mem # Phys =>
      LET c == Content(obj[f])
      IN /\ Len(c) = Len(want[f])
         /\ \A p \in DOMAIN c : p \notin stale[f] => c[p] = want[f][p]
=============================================================================
