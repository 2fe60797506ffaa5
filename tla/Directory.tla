------------------------------ MODULE Directory -----------------------------
(***************************************************************************)
(* Listing the directory: dir_read() of student-distrib/files.c, called by *)
(* read() with interrupts on.  All programs share one cursor, dir_reads,   *)
(* so the scheduler may run one program's call inside another's.           *)
(***************************************************************************)
EXTENDS Integers, FiniteSets

CONSTANTS
  Lister,            \* the programs that list the directory
  num_dentries,      \* how many files there are
  MaxCursor          \* a bound: how far the cursor is followed

ASSUME CursorAssumption ==
  /\ IsFiniteSet(Lister) /\ Lister # {}
  /\ num_dentries \in Nat
  /\ MaxCursor \in Nat /\ MaxCursor > num_dentries

VARIABLES
  dir_reads,         \* the shared cursor
  dpc,               \* "user", "test", "copy", "load", "store" or "reset"
  loaded,            \* the register of dir_reads++
  seen,              \* history: the entries a program got in its listing
  listing,           \* history: "none", or a listing is under way, "clean" if
                     \* no other was during it, or else "disturbed"
  abandoned,         \* history: a program stopped in the middle of a listing,
                     \* and nobody alone has read to the end since
  overlapped         \* history: one call ran inside another

history == <<seen, listing, abandoned, overlapped>>
dir_vars == <<dir_reads, dpc, loaded, history>>

DirectoryInit ==
  /\ dir_reads = 0
  /\ dpc = [p \in Lister |-> "user"]
  /\ loaded = [p \in Lister |-> 0]
  /\ seen = [p \in Lister |-> {}]
  /\ listing = [p \in Lister |-> "none"]
  /\ abandoned = FALSE
  /\ overlapped = FALSE

\* No program but p is in the middle of a listing.
NobodyElse(p) == \A q \in Lister \ {p} : listing[q] = "none"

dir_read(p) ==
  /\ dpc[p] = "user"
  /\ dpc' = [dpc EXCEPT ![p] = "test"]
  /\ listing' = [q \in Lister |->
                   IF q # p THEN IF listing[q] = "none" THEN "none" ELSE "disturbed"
                   ELSE IF listing[p] # "none" THEN listing[p]
                   ELSE IF NobodyElse(p) /\ ~ abandoned THEN "clean" ELSE "disturbed"]
  /\ overlapped' = (overlapped \/ \E q \in Lister : dpc[q] # "user")
  /\ UNCHANGED <<dir_reads, loaded, seen, abandoned>>

OneEntryTooFar == dir_reads > num_dentries

WholeDirectoryRead == dir_reads >= num_dentries

dir_read_test(p) ==
  /\ dpc[p] = "test"
  /\ dpc' = [dpc EXCEPT ![p] = IF WholeDirectoryRead THEN "reset" ELSE "copy"]
  /\ UNCHANGED <<dir_reads, loaded, history>>

KeepCursor == dir_reads

ResetCursor == 0

\* dir_reads = 0 and return 0: the listing is over.
dir_read_reset(p) ==
  /\ dpc[p] = "reset"
  /\ dir_reads' = ResetCursor
  /\ dpc' = [dpc EXCEPT ![p] = "user"]
  /\ seen' = [seen EXCEPT ![p] = {}]
  /\ listing' = [listing EXCEPT ![p] = "none"]
  /\ abandoned' = (abandoned /\ ~ NobodyElse(p))
  /\ UNCHANGED <<loaded, overlapped>>

\* strcpy() of fs_dentries[dir_reads].filename
dir_read_copy(p) ==
  /\ dpc[p] = "copy"
  /\ seen' = [seen EXCEPT ![p] = @ \cup {dir_reads}]
  /\ dpc' = [dpc EXCEPT ![p] = "load"]
  /\ UNCHANGED <<dir_reads, loaded, listing, abandoned, overlapped>>

\* dir_reads++ loads, adds and stores.
dir_read_load(p) ==
  /\ dpc[p] = "load"
  /\ loaded' = [loaded EXCEPT ![p] = dir_reads]
  /\ dpc' = [dpc EXCEPT ![p] = "store"]
  /\ UNCHANGED <<dir_reads, history>>

dir_read_store(p) ==
  /\ dpc[p] = "store"
  /\ loaded[p] < MaxCursor
  /\ dir_reads' = loaded[p] + 1
  /\ loaded' = [loaded EXCEPT ![p] = 0]
  /\ dpc' = [dpc EXCEPT ![p] = "user"]
  /\ UNCHANGED history

\* The program ends, and another takes its place, before its read returned 0.
stop_early(p) ==
  /\ dpc[p] = "user" /\ listing[p] # "none"
  /\ seen' = [seen EXCEPT ![p] = {}]
  /\ listing' = [listing EXCEPT ![p] = "none"]
  /\ abandoned' = TRUE
  /\ UNCHANGED <<dir_reads, dpc, loaded, overlapped>>

DirectoryNext ==
  \/ \E p \in Lister : dir_read(p)
  \/ \E p \in Lister : dir_read_test(p)
  \/ \E p \in Lister : dir_read_reset(p)
  \/ \E p \in Lister : dir_read_copy(p)
  \/ \E p \in Lister : dir_read_load(p)
  \/ \E p \in Lister : dir_read_store(p)
  \/ \E p \in Lister : stop_early(p)

DirectorySpec == DirectoryInit /\ [][DirectoryNext]_dir_vars

-----------------------------------------------------------------------------
\* Program counters, registers and the sets of entries have their types.
DirectoryTypeOK ==
  /\ dir_reads \in 0 .. MaxCursor
  /\ dpc \in [Lister -> {"user", "test", "copy", "load", "store", "reset"}]
  /\ loaded \in [Lister -> 0 .. MaxCursor]
  /\ seen \in [Lister -> SUBSET (0 .. MaxCursor)]
  /\ listing \in [Lister -> {"none", "clean", "disturbed"}]
  /\ abandoned \in BOOLEAN
  /\ overlapped \in BOOLEAN

\* As long as the scheduler never ran one call of dir_read() inside another,
\* the programs together stay inside the directory: only entries that exist
\* are copied, in whatever order the calls of the programs come.
EntriesExist ==
  ~ overlapped =>
    /\ dir_reads <= num_dentries
    /\ \A p \in Lister : seen[p] \subseteq 0 .. num_dentries - 1

\* A program that lists the directory while nobody else does is given every
\* file before its read returns 0, whatever went on before, torn increments of
\* the shared cursor included, if only the listings before it were all read to
\* the end: dir_read() resets the cursor nowhere else.
ListingComplete ==
  [][\A p \in Lister : dpc[p] = "reset" /\ dpc'[p] = "user" /\ listing[p] = "clean" =>
       seen[p] = 0 .. num_dentries - 1]_dir_vars
=============================================================================
