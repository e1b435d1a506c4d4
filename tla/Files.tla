-------------------------------- MODULE Files --------------------------------
(***************************************************************************)
(* Descriptor tables, open files and the inode cache (kernel/fs/fs.c) under *)
(* the file system calls (kernel/syscall.c) of several processes, with      *)
(* fork, spawn and exit (kernel/proc.c).  call[p] is the frame of process p *)
(* in its system call.  A section under s_lock, f_lock or the cleanup lock  *)
(* does not sleep and is one step; i_lock and the journal are held across   *)
(* steps.  An in-memory inode is named by its number.  The directories are  *)
(* what sfs.c keeps on the disk: the inodes entered under each stored name, *)
(* in the order of their slots.  Sfs has the representation.                *)
(***************************************************************************)
EXTENDS Naturals, Sequences, FiniteSets, FiniteSetsExt, SequencesExt, Functions

CONSTANTS
  Procs, Running,     \* processes, and those that run at the start
  Inums, SFS_ROOT_INUM,
  Names, Stored,      \* names, and the at most 27 characters kept of each in a directory
  Args, Links,        \* the paths, [abs, elems], each call is made with
  Trees,              \* directory trees at the start: [ftype, ent]
  Objs,               \* addresses of struct file
  PROC_MAX_FILE,
  NULL, stdin, stdout,
  MaxCalls,           \* bound on the number of system calls
  MaxFails            \* bound on failed allocations

Paths == [abs : BOOLEAN, elems : Seq(Names)]
Unnamed(t) == {i \in Inums : \A d \in Inums, n \in Names : i \notin Range(t.ent[d][n])}

\* A tree comes from mkfs: what has a name is a file or a directory, and the root has none.
ASSUME FilesAssumption ==
  /\ SFS_ROOT_INUM \in Inums /\ Inums \subseteq Nat \ {0}
  /\ Running \subseteq Procs /\ Running # {}
  /\ IsFiniteSet(Inums) /\ IsFiniteSet(Names) /\ IsFiniteSet(Procs) /\ IsFiniteSet(Objs)
  /\ NULL \notin Procs \cup Inums /\ {NULL, stdin, stdout} \cap Objs = {} /\ NULL \notin {stdin, stdout}
  /\ Stored \in [Names -> Names] /\ \A n \in Names : Stored[Stored[n]] = Stored[n]
  /\ PROC_MAX_FILE \in Nat /\ PROC_MAX_FILE > 1
  /\ \A op \in {"open", "creat", "unlink", "mkdir", "rmdir", "chdir", "spawn"} : Args[op] \subseteq Paths
  /\ Links \subseteq Paths \X Paths
  /\ \A t \in Trees :
       /\ t.ftype \in [Inums -> {"none", "file", "dir"}] /\ t.ent \in [Inums -> [Names -> Seq(Inums)]]
       /\ t.ftype[SFS_ROOT_INUM] = "dir" /\ SFS_ROOT_INUM \in Unnamed(t)
       /\ \A i \in Inums : t.ftype[i] = "none" => i \in Unnamed(t)

VARIABLES
  ftype, i_nlink, ent,   \* on the disk: each inode's type, links and entries
  icache,                \* inodes in s_icache
  valid,                 \* those with INODE_VALID
  i_ref,
  i_lock,                \* holder of each i_lock
  cleanup,               \* cleanup_thread_inodes
  journal,               \* the process in a transaction
  f_ref, f_inode,        \* open files; f_ref is 0 when the object is free
  fds, cwd,              \* per process
  alive,
  call,
  calls, fails,
  untracked,             \* ghost: a reference was used by two owners
  lost,                  \* ghost: a reference was dropped without a release
  panic

diskVars == <<ftype, i_nlink, ent>>
inodeVars == <<icache, valid, i_ref, cleanup>>
fileVars == <<f_ref, f_inode, fds>>
procVars == <<cwd, alive>>
ghostVars == <<untracked, lost, panic>>
vars == <<diskVars, inodeVars, i_lock, journal, fileVars, procVars, call, calls, fails, ghostVars>>

NoCall == [op |-> "none", at |-> "none", ret |-> "none", elems |-> <<>>, arg |-> 0,
           cur |-> 0, got |-> 0, src |-> 0, new |-> [abs |-> TRUE, elems |-> <<>>], fd |-> 0, q |-> NULL]
NoEnt == [n \in Names |-> <<>>]
Console == [d \in 0..(PROC_MAX_FILE - 1) |-> CASE d = 0 -> stdin [] d = 1 -> stdout [] OTHER -> NULL]

Entries(e, i) ==
  MapThenSumSet(LAMBDA x : Cardinality({k \in DOMAIN e[x[1]][x[2]] : e[x[1]][x[2]][k] = i}), Inums \X Names)

\* Some processes, in the root directory of some tree.
Init ==
  /\ \E t \in Trees : ftype = t.ftype /\ ent = t.ent
  /\ i_nlink = [i \in Inums |-> IF i = SFS_ROOT_INUM THEN 1 ELSE Entries(ent, i)]
  /\ icache = {SFS_ROOT_INUM} /\ valid = icache
  /\ i_ref = [i \in Inums |-> IF i = SFS_ROOT_INUM THEN Cardinality(Running) ELSE 0]
  /\ i_lock = [i \in Inums |-> NULL]
  /\ cleanup = <<>>
  /\ journal = NULL
  /\ f_ref = [f \in Objs |-> 0] /\ f_inode = [f \in Objs |-> NULL]
  /\ fds = [p \in Procs |-> Console]
  /\ cwd = [p \in Procs |-> SFS_ROOT_INUM]
  /\ alive = Running
  /\ call = [p \in Procs |-> NoCall]
  /\ calls = 0 /\ fails = 0
  /\ untracked = FALSE /\ lost = FALSE /\ panic = {}

at(p, l) == call[p].at = l
Goto(p, l) == call' = [call EXCEPT ![p].at = l]
Done(p) == call' = [call EXCEPT ![p] = NoCall]
\* fs_get_inode(i), and then l; fs_release_inode(i), and then l.
Get(p, i, l) == call' = [call EXCEPT ![p].at = "get", ![p].arg = i, ![p].ret = l]
Rel(p, i, l) == call' = [call EXCEPT ![p].at = "rel", ![p].arg = i, ![p].ret = l]
\* The frame after fs_get_inode or fs_release_inode.  A call that fails releases what
\* fs_link, or fs_open_file, still holds.
After(c) ==
  CASE c.ret = "fail" \/ (c.ret = "walk" /\ c.got = 0) ->
         IF c.src = 0 THEN NoCall
         ELSE [c EXCEPT !.at = "rel", !.arg = c.src, !.ret = "fail", !.src = 0]
    [] c.ret = "linked" -> [c EXCEPT !.at = "rel", !.arg = c.src, !.ret = "end", !.src = 0]
    [] c.ret = "done" -> NoCall
    [] OTHER -> [c EXCEPT !.at = c.ret]
Continue(p, got) == call' = [call EXCEPT ![p] = After([@ EXCEPT !.got = got])]
\* A failed assertion stops the kernel; what the other threads still do is not followed.
Panic(why) ==
  /\ panic' = panic \cup {why}
  /\ alive' = {} /\ call' = [p \in Procs |-> NoCall]
\* k allocations, or fetches of a block, fail.
Fails(k) == fails + k <= MaxFails /\ fails' = fails + k
Fail == Fails(1)
Lock(p, i) == i_lock[i] = NULL /\ i_lock' = [i_lock EXCEPT ![i] = p]
Unlock(i) == i_lock' = [i_lock EXCEPT ![i] = NULL]

-----------------------------------------------------------------------------
\* A wrong one: a cached inode is returned without counting the reference.
GetUncounted(p) ==
  /\ at(p, "get")
  /\ LET i == call[p].arg
     IN /\ i_ref' = [i_ref EXCEPT ![i] = IF i \in icache THEN @ ELSE 1]
        /\ icache' = icache \cup {i}
        /\ valid' = IF i \in icache THEN valid ELSE valid \ {i}
  /\ Goto(p, "valid")
  /\ UNCHANGED <<diskVars, cleanup, i_lock, journal, fileVars, procVars, calls, fails, ghostVars>>

\* fs_get_inode up to the release of s_lock: a cached inode, or a new one.
GetCached(p) ==
  /\ at(p, "get")
  /\ LET i == call[p].arg
     IN /\ i_ref' = [i_ref EXCEPT ![i] = IF i \in icache THEN @ + 1 ELSE 1]
        /\ icache' = icache \cup {i}
        /\ valid' = IF i \in icache THEN valid ELSE valid \ {i}
  /\ Goto(p, "valid")
  /\ UNCHANGED <<diskVars, cleanup, i_lock, journal, fileVars, procVars, calls, fails, ghostVars>>

\* A new inode cannot be had.  If what fails is the part of the file system
\* (sfs_alloc_inode) or the insertion in the cache, fs_free_inode finds i_ref still 1.
GetNoMem(p) ==
  /\ at(p, "get") /\ call[p].arg \notin icache
  /\ Fail
  /\ \/ Continue(p, 0) /\ UNCHANGED <<alive, panic>>
     \/ Panic("i_ref == 0")
  /\ UNCHANGED <<diskVars, inodeVars, i_lock, journal, fileVars, cwd, calls, untracked, lost>>

\* The rest of fs_get_inode, under i_lock: the inode is read if it has not been.
GetValid(p) ==
  /\ at(p, "valid") /\ i_lock[call[p].arg] = NULL
  /\ valid' = valid \cup {call[p].arg}
  /\ Continue(p, call[p].arg)
  /\ UNCHANGED <<diskVars, icache, i_ref, cleanup, i_lock, journal, fileVars, procVars,
                 calls, fails, ghostVars>>

ReadInodeNoMem(p) ==
  /\ at(p, "valid") /\ i_lock[call[p].arg] = NULL /\ call[p].arg \notin valid
  /\ Fail
  /\ call' = [call EXCEPT ![p].at = "rel", ![p].got = 0]
  /\ UNCHANGED <<diskVars, inodeVars, i_lock, journal, fileVars, procVars, calls, ghostVars>>

\* The last reference goes to the cleanup list if the inode has no links (no inode is
\* dirty here), and else the inode is freed.
fs_release_inode(p) ==
  /\ at(p, "rel") /\ i_lock[call[p].arg] = NULL
  /\ LET i == call[p].arg
         last == i_ref[i] = 1
         handed == last /\ i \in valid /\ i_nlink[i] = 0
     IN IF i \notin icache
          THEN Panic("freed inode") /\ UNCHANGED <<i_ref, icache, cleanup>>
          ELSE /\ i_ref' = [i_ref EXCEPT ![i] = IF handed THEN 1 ELSE @ - 1]
               /\ cleanup' = IF handed THEN Append(cleanup, i) ELSE cleanup
               /\ icache' = IF last /\ ~handed THEN icache \ {i} ELSE icache
               /\ Continue(p, call[p].got)
               /\ UNCHANGED <<alive, panic>>
  /\ UNCHANGED <<diskVars, valid, i_lock, journal, fileVars, cwd, calls, fails,
                 untracked, lost>>

InodeStep(p) == GetCached(p) \/ GetNoMem(p) \/ GetValid(p) \/ ReadInodeNoMem(p) \/ fs_release_inode(p)

-----------------------------------------------------------------------------
\* The first entry with the name; what is stored of a longer name never matches it.
Long(n) == Stored[n] # n
Match(e, d, n) == IF Long(n) \/ e[d][n] = <<>> THEN 0 ELSE Head(e[d][n])

\* search_dir: 0 if there is no such entry, or if a block of the directory cannot be read.
search_dir(d, n, res) ==
  \/ res = Match(ent, d, n) /\ UNCHANGED fails
  \/ res = 0 /\ Match(ent, d, n) # 0 /\ Fail

\* fs_find_parent_inode starts at the current directory or at the root.
Start(p, path) == IF path.abs THEN SFS_ROOT_INUM ELSE cwd[p]

\* The parent directory is found.  An empty last element names the directory itself,
\* which can be found and opened, but not changed.
FoundParent(c) ==
  CASE c.op \in {"open", "creat", "load"} -> [c EXCEPT !.at = "begin"]
    [] c.op \in {"unlink", "rmdir", "mkdir", "link2"} ->
         IF c.elems = <<>> THEN [c EXCEPT !.at = "rel", !.arg = c.cur, !.ret = "fail"]
         ELSE [c EXCEPT !.at = "begin"]
    [] OTHER -> IF c.elems = <<>> THEN [c EXCEPT !.at = "found", !.got = c.cur]
                ELSE [c EXCEPT !.at = "leaf"]

\* One element of the path, under the directory's lock.
WalkDir(p) ==
  /\ at(p, "walk") /\ call[p].got # 0
  /\ LET d == call[p].got IN
     /\ i_lock[d] = NULL
     /\ IF ftype[d] # "dir"
          THEN Rel(p, d, "fail") /\ UNCHANGED <<i_lock, fails>>
        ELSE IF Len(call[p].elems) <= 1
          THEN call' = [call EXCEPT ![p] = FoundParent([@ EXCEPT !.cur = d])] /\ UNCHANGED <<i_lock, fails>>
        ELSE \E res \in Inums \cup {0} :
               /\ search_dir(d, Head(call[p].elems), res)
               /\ IF res = 0 THEN Rel(p, d, "fail") /\ UNCHANGED i_lock
                  ELSE /\ Lock(p, d)
                       /\ call' = [call EXCEPT ![p].at = "get", ![p].arg = res, ![p].ret = "walked",
                                               ![p].cur = d, ![p].elems = Tail(@)]
  /\ UNCHANGED <<diskVars, inodeVars, journal, fileVars, procVars, calls, ghostVars>>

\* The next inode is found, or not: the directory is unlocked and released.
Walked(p) ==
  /\ at(p, "walked")
  /\ Unlock(call[p].cur)
  /\ Rel(p, call[p].cur, IF call[p].got = 0 THEN "fail" ELSE "walk")
  /\ UNCHANGED <<diskVars, inodeVars, journal, fileVars, procVars, calls, fails, ghostVars>>

\* fs_find_inode looks the last element up without the parent's lock.
FindLeaf(p) ==
  /\ at(p, "leaf")
  /\ LET c == call[p] IN
     \E res \in Inums \cup {0} :
       /\ search_dir(c.cur, c.elems[1], res)
       /\ IF res = 0 THEN Rel(p, c.cur, "fail") ELSE Get(p, res, "find")
  /\ UNCHANGED <<diskVars, inodeVars, i_lock, journal, fileVars, procVars, calls, ghostVars>>

\* fs_find_inode releases the parent.
Find(p) ==
  /\ at(p, "find")
  /\ Rel(p, call[p].cur, IF call[p].got = 0 THEN "fail" ELSE "found")
  /\ UNCHANGED <<diskVars, inodeVars, i_lock, journal, fileVars, procVars, calls, fails, ghostVars>>

PathStep(p) == WalkDir(p) \/ Walked(p) \/ FindLeaf(p) \/ Find(p)

-----------------------------------------------------------------------------
journal_begin_txn(p) ==
  /\ at(p, "begin") /\ journal = NULL
  /\ journal' = p
  /\ Goto(p, CASE call[p].op \in {"open", "creat", "load"} -> "open"
               [] call[p].op = "link2" -> "locksrc"
               [] call[p].op = "write" -> "rw"
               [] OTHER -> "modify")
  /\ UNCHANGED <<diskVars, inodeVars, i_lock, fileVars, procVars, calls, fails, ghostVars>>

journal_end_txn(p) ==
  /\ at(p, "end")
  /\ journal' = NULL
  /\ Done(p)
  /\ UNCHANGED <<diskVars, inodeVars, i_lock, fileVars, procVars, calls, fails, ghostVars>>

\* alloc_dirent: the first free slot may come before those of the same name.
alloc_dirent(d, n, i) ==
  \E k \in 0..Len(ent[d][Stored[n]]) : ent' = [ent EXCEPT ![d][Stored[n]] = InsertAt(@, k + 1, i)]

\* The searches that must fail for a name to be taken for new.
Missed(d, n) == IF Match(ent, d, n) = 0 THEN 0 ELSE 1

\* create_inode_in_dir, with k allocations that fail: the lowest free inode, one link, one
\* entry.  "NORES": no inode is free, or no block for the entry.
create_inode_in_dir(d, n, t, k, err) ==
  LET free == {i \in Inums : ftype[i] = "none"} IN
  \/ /\ err = "EXIST" /\ Match(ent, d, n) # 0 /\ k = 0
     /\ UNCHANGED diskVars
  \/ /\ err = "OK" /\ k = Missed(d, n) /\ free # {}
     /\ ftype' = [ftype EXCEPT ![Min(free)] = t]
     /\ i_nlink' = [i_nlink EXCEPT ![Min(free)] = 1]
     /\ alloc_dirent(d, n, Min(free))
  \/ /\ err = "NORES" /\ k = Missed(d, n)
     /\ UNCHANGED diskVars
  \/ /\ err = "NOMEM" /\ k = Missed(d, n) + 1
     /\ UNCHANGED diskVars

\* fs_open_file without a last element: the directory itself is opened.
OpenDir(p) ==
  /\ at(p, "open") /\ call[p].elems = <<>>
  /\ call' = [call EXCEPT ![p].at = "alloc", ![p].got = call[p].cur]
  /\ untracked' = TRUE
  /\ UNCHANGED <<diskVars, inodeVars, i_lock, journal, fileVars, procVars, calls, fails, lost, panic>>

\* fs_open_file under the parent's lock: lookup...
OpenLookup(p) ==
  /\ at(p, "open") /\ call[p].elems # <<>>
  /\ Lock(p, call[p].cur)
  /\ \E res \in Inums \cup {0} :
       /\ search_dir(call[p].cur, call[p].elems[1], res)
       /\ IF res # 0 THEN Get(p, res, "opened")
          ELSE call' = [call EXCEPT ![p].at = IF call[p].op = "creat" THEN "creat" ELSE "opened",
                                    ![p].got = 0]
  /\ UNCHANGED <<diskVars, inodeVars, journal, fileVars, procVars, calls, ghostVars>>

\* ... and create, and lookup again, which must find the name.
OpenCreate(p) ==
  /\ at(p, "creat")
  /\ LET d == call[p].cur
         n == call[p].elems[1]
     IN \E k \in 0..2, again \in 0..1, err \in {"OK", "EXIST", "NORES", "NOMEM"} :
          /\ create_inode_in_dir(d, n, "file", k, err)
          /\ err # "OK" => again = 0
          /\ Fails(k + again)
          /\ CASE err = "EXIST" -> Panic("err != ERR_EXIST")
               [] err = "OK" /\ (again = 1 \/ Match(ent', d, n) = 0) -> Panic("err != ERR_NOTEXIST")
               [] err = "OK" /\ again = 0 /\ Match(ent', d, n) # 0 ->
                    Get(p, Match(ent', d, n), "opened") /\ UNCHANGED <<alive, panic>>
               [] OTHER -> Goto(p, "opened") /\ UNCHANGED <<alive, panic>>
  /\ UNCHANGED <<inodeVars, i_lock, journal, fileVars, cwd, calls, untracked, lost>>

\* A wrong one: the parent stays locked when the lookup fails.
OpenedLocked(p) ==
  /\ at(p, "opened")
  /\ IF call[p].got = 0
       THEN journal' = NULL /\ Rel(p, call[p].cur, "fail") /\ UNCHANGED i_lock
       ELSE UNCHANGED journal /\ Goto(p, "alloc") /\ Unlock(call[p].cur)
  /\ UNCHANGED <<diskVars, inodeVars, fileVars, procVars, calls, fails, ghostVars>>

Opened(p) ==
  /\ at(p, "opened")
  /\ Unlock(call[p].cur)
  /\ IF call[p].got = 0
       THEN journal' = NULL /\ Rel(p, call[p].cur, "fail")
       ELSE UNCHANGED journal /\ Goto(p, "alloc")
  /\ UNCHANGED <<diskVars, inodeVars, fileVars, procVars, calls, fails, ghostVars>>

\* find_lowest_null_fd starts at 2, find_lowest_null_fd_from_0 at 0; -1 if there is none.
NullFds(p, from) == {d \in from..(PROC_MAX_FILE - 1) : fds[p][d] = NULL}

FreeObjs == {f \in Objs : f_ref[f] = 0 /\ \A q \in Procs : f \notin Range(fds[q])}

\* fs_alloc_file, the end of fs_open_file, and the descriptor.
OpenFile(p) ==
  /\ at(p, "alloc") /\ FreeObjs # {}
  /\ \E f \in FreeObjs :
        /\ f_ref' = [f_ref EXCEPT ![f] = 1]
        /\ f_inode' = [f_inode EXCEPT ![f] = call[p].got]
        /\ fds' = IF call[p].op = "load" THEN fds ELSE [fds EXCEPT ![p][call[p].fd] = f]
  /\ journal' = NULL
  /\ Rel(p, call[p].cur, IF call[p].op = "load" THEN "spawned" ELSE "done")
  /\ UNCHANGED <<diskVars, inodeVars, i_lock, procVars, calls, fails, ghostVars>>

OpenNoMem(p) ==
  /\ at(p, "alloc") /\ Fail
  /\ journal' = NULL
  /\ call' = [call EXCEPT ![p].at = "rel", ![p].arg = call[p].got, ![p].ret = "fail", ![p].src = call[p].cur]
  /\ UNCHANGED <<diskVars, inodeVars, i_lock, fileVars, procVars, calls, ghostVars>>

OpenStep(p) == OpenDir(p) \/ OpenLookup(p) \/ OpenCreate(p) \/ Opened(p) \/ OpenFile(p) \/ OpenNoMem(p)

-----------------------------------------------------------------------------
\* fs_mkdir: create_inode_in_dir under the parent's lock.
Mkdir(p) ==
  /\ at(p, "modify") /\ call[p].op = "mkdir"
  /\ LET d == call[p].cur
         n == call[p].elems[1]
     IN /\ i_lock[d] = NULL
        /\ \E k \in 0..2, err \in {"OK", "EXIST", "NORES", "NOMEM"} :
             create_inode_in_dir(d, n, "dir", k, err) /\ Fails(k)
  /\ Rel(p, call[p].cur, "end")
  /\ UNCHANGED <<inodeVars, i_lock, journal, fileVars, procVars, calls, ghostVars>>

\* unlink_inode_in_dir, under the parent's lock: look the entry up...
UnlinkLookup(p) ==
  /\ at(p, "modify") /\ call[p].op \in {"unlink", "rmdir"}
  /\ LET d == call[p].cur IN
     /\ i_lock[d] = NULL
     /\ \E res \in Inums \cup {0} :
          /\ search_dir(d, call[p].elems[1], res)
          /\ IF res = 0 THEN Rel(p, d, "end") /\ UNCHANGED i_lock
             ELSE Lock(p, d) /\ Get(p, res, "unlink")
  /\ UNCHANGED <<diskVars, inodeVars, journal, fileVars, procVars, calls, ghostVars>>

\* A wrong one: the links are counted down before the checks.
UnlinkUnchecked(p) ==
  /\ at(p, "unlink") /\ call[p].got # 0 /\ i_lock[call[p].got] = NULL
  /\ LET i == call[p].got
         removes == /\ ftype[i] = IF call[p].op = "rmdir" THEN "dir" ELSE "file"
                    /\ call[p].op = "rmdir" => ent[i] = NoEnt
     IN /\ ent' = IF removes THEN [ent EXCEPT ![call[p].cur][call[p].elems[1]] = Tail(@)] ELSE ent
        /\ i_nlink' = [i_nlink EXCEPT ![i] = @ - 1]
        /\ IF i_nlink[i] = 0 THEN Panic("i_nlink > 0")
           ELSE Rel(p, i, "unlinked") /\ UNCHANGED <<alive, panic>>
  /\ UNCHANGED <<ftype, inodeVars, i_lock, journal, fileVars, cwd, calls, fails, untracked, lost>>

\* A wrong one: the entry stays.
UnlinkKeepsEntry(p) ==
  /\ at(p, "unlink") /\ call[p].got # 0 /\ i_lock[call[p].got] = NULL
  /\ LET i == call[p].got
         removes == /\ ftype[i] = IF call[p].op = "rmdir" THEN "dir" ELSE "file"
                    /\ call[p].op = "rmdir" => ent[i] = NoEnt
     IN /\ i_nlink' = IF removes THEN [i_nlink EXCEPT ![i] = @ - 1] ELSE i_nlink
        /\ IF i_nlink[i] = 0 THEN Panic("i_nlink > 0")
           ELSE Rel(p, i, "unlinked") /\ UNCHANGED <<alive, panic>>
  /\ UNCHANGED <<ftype, ent, inodeVars, i_lock, journal, fileVars, cwd, calls, fails, untracked, lost>>

\* The type fits, a directory is empty, and no block of either directory fails.
Removes(p, i, k) ==
  /\ ftype[i] = IF call[p].op = "rmdir" THEN "dir" ELSE "file"
  /\ call[p].op = "rmdir" => ent[i] = NoEnt
  /\ k = 0

\* ... and remove it, under the locks of both.
Unlink(p) ==
  /\ at(p, "unlink") /\ call[p].got # 0 /\ i_lock[call[p].got] = NULL
  /\ \E k \in 0..1 :
       LET i == call[p].got
       IN /\ Fails(k)
          /\ ent' = IF Removes(p, i, k) THEN [ent EXCEPT ![call[p].cur][call[p].elems[1]] = Tail(@)] ELSE ent
          /\ i_nlink' = IF Removes(p, i, k) THEN [i_nlink EXCEPT ![i] = @ - 1] ELSE i_nlink
          /\ IF i_nlink[i] = 0 THEN Panic("i_nlink > 0")
             ELSE Rel(p, i, "unlinked") /\ UNCHANGED <<alive, panic>>
  /\ UNCHANGED <<ftype, inodeVars, i_lock, journal, fileVars, cwd, calls, untracked, lost>>

\* The inode cannot be had, or its block cannot: the reference to it is not released.
UnlinkNoMem(p) ==
  /\ at(p, "unlink")
  /\ IF call[p].got = 0 THEN UNCHANGED <<fails, lost>> ELSE Fail /\ lost' = TRUE
  /\ Goto(p, "unlinked")
  /\ UNCHANGED <<diskVars, inodeVars, i_lock, journal, fileVars, procVars, calls, untracked, panic>>

Unlinked(p) ==
  /\ at(p, "unlinked")
  /\ Unlock(call[p].cur)
  /\ Rel(p, call[p].cur, "end")
  /\ UNCHANGED <<diskVars, inodeVars, journal, fileVars, procVars, calls, fails, ghostVars>>

\* fs_link has found its source, which must be a file, and looks for the new parent.
LinkSource(p) ==
  /\ at(p, "found") /\ call[p].op = "link"
  /\ IF ftype[call[p].got] # "file"
       THEN Rel(p, call[p].got, "fail")
       ELSE call' = [call EXCEPT ![p].op = "link2", ![p].src = call[p].got, ![p].at = "get",
                                 ![p].elems = call[p].new.elems, ![p].ret = "walk",
                                 ![p].arg = Start(p, call[p].new)]
  /\ UNCHANGED <<diskVars, inodeVars, i_lock, journal, fileVars, procVars, calls, fails, ghostVars>>

LinkLock(p) ==
  /\ at(p, "locksrc")
  /\ Lock(p, call[p].src)
  /\ Goto(p, "link")
  /\ UNCHANGED <<diskVars, inodeVars, journal, fileVars, procVars, calls, fails, ghostVars>>

\* sfs_link under both locks; then the directory and the source are released.
Link(p) ==
  /\ at(p, "link")
  /\ LET d == call[p].cur
         n == call[p].elems[1]
     IN /\ i_lock[d] = NULL
        /\ \/ /\ Fails(Missed(d, n))
              /\ alloc_dirent(d, n, call[p].src)
              /\ i_nlink' = [i_nlink EXCEPT ![call[p].src] = @ + 1]
              /\ UNCHANGED ftype
           \/ /\ \E k \in 0..(Missed(d, n) + 1) : Fails(k)
              /\ UNCHANGED diskVars
  /\ Unlock(call[p].src)
  /\ Rel(p, call[p].cur, "linked")
  /\ UNCHANGED <<inodeVars, journal, fileVars, procVars, calls, ghostVars>>

DirStep(p) ==
  \/ Mkdir(p) \/ UnlinkLookup(p) \/ Unlink(p) \/ UnlinkNoMem(p) \/ Unlinked(p)
  \/ LinkSource(p) \/ LinkLock(p) \/ Link(p)

-----------------------------------------------------------------------------
\* sys_chdir releases the old directory and takes over the reference to the new one.
Chdir(p) ==
  /\ at(p, "found") /\ call[p].op = "chdir"
  /\ Rel(p, cwd[p], "chdir")
  /\ UNCHANGED <<diskVars, inodeVars, i_lock, journal, fileVars, procVars, calls, fails, ghostVars>>

ChdirSet(p) ==
  /\ at(p, "chdir")
  /\ cwd' = [cwd EXCEPT ![p] = call[p].got]
  /\ Done(p)
  /\ UNCHANGED <<diskVars, inodeVars, i_lock, journal, fileVars, alive, calls, fails, ghostVars>>

\* fs_close_file: the last reference releases the inode, and then the object is freed;
\* pipes have no inode, and stdin and stdout stay.
fs_close_file(p, d) ==
  LET f == fds[p][d]
      last == f \in Objs /\ f_ref[f] = 1 /\ f_inode[f] # NULL
  IN /\ f_ref' = IF f \in Objs /\ f_ref[f] > 0 THEN [f_ref EXCEPT ![f] = @ - 1] ELSE f_ref
     /\ fds' = IF last THEN fds ELSE [fds EXCEPT ![p][d] = NULL]
     /\ IF last THEN Rel(p, f_inode[f], call[p].at) ELSE UNCHANGED call

Close(p) ==
  /\ at(p, "close")
  /\ IF fds[p][call[p].fd] # NULL
       THEN fs_close_file(p, call[p].fd)
       ELSE Done(p) /\ UNCHANGED <<f_ref, fds>>
  /\ UNCHANGED <<diskVars, inodeVars, i_lock, journal, f_inode, procVars, calls, fails, ghostVars>>

\* proc_exit: close_all_fds, then the current directory.
Exit(p) ==
  /\ at(p, "exit")
  /\ LET held == {d \in DOMAIN fds[p] : fds[p][d] # NULL}
     IN IF held # {}
          THEN fs_close_file(p, Min(held))
          ELSE Rel(p, cwd[p], "gone") /\ UNCHANGED <<f_ref, fds>>
  /\ UNCHANGED <<diskVars, inodeVars, i_lock, journal, f_inode, procVars, calls, fails, ghostVars>>

Gone(p) ==
  /\ at(p, "gone")
  /\ alive' = alive \ {p}
  /\ Done(p)
  /\ UNCHANGED <<diskVars, inodeVars, i_lock, journal, fileVars, cwd, calls, fails, ghostVars>>

Descriptors(p, f) == {d \in DOMAIN fds[p] : fds[p][d] = f}
\* fs_reopen_file for every descriptor of p.
Reopened(p) == [f \in Objs |-> f_ref[f] + Cardinality(Descriptors(p, f))]

\* duplicate_process_state: the child has the parent's descriptors, each with a reference
\* of its own, and its current directory, without one: proc_init's is for the root.
Fork(p) ==
  /\ at(p, "fork") /\ call[p].got # 0
  /\ LET q == call[p].q IN
       /\ alive' = alive \cup {q}
       /\ fds' = [fds EXCEPT ![q] = fds[p]]
       /\ f_ref' = Reopened(p)
       /\ cwd' = [cwd EXCEPT ![q] = cwd[p]]
  /\ untracked' = (untracked \/ cwd[p] # SFS_ROOT_INUM)
  /\ Done(p)
  /\ UNCHANGED <<diskVars, inodeVars, i_lock, journal, f_inode, calls, fails, lost, panic>>

\* as_copy_as fails before the descriptors are copied, thread_create after; what the
\* child had taken is not given back.
ForkNoMem(p) ==
  /\ at(p, "fork")
  /\ IF call[p].got = 0 THEN UNCHANGED <<f_ref, fails, lost>>
     ELSE Fail /\ lost' = TRUE /\ (UNCHANGED f_ref \/ f_ref' = Reopened(p))
  /\ Done(p)
  /\ UNCHANGED <<diskVars, inodeVars, i_lock, journal, f_inode, fds, procVars, calls, untracked, panic>>

\* proc_spawn: proc_init, then proc_load opens the program, which stays open.
SpawnLoad(p) ==
  /\ at(p, "load")
  /\ lost' = TRUE
  /\ IF call[p].got = 0 THEN Done(p)
     ELSE call' = [call EXCEPT ![p].op = "load", ![p].at = "get", ![p].ret = "walk",
                               ![p].elems = call[p].new.elems,
                               ![p].arg = Start(p, call[p].new)]
  /\ UNCHANGED <<diskVars, inodeVars, i_lock, journal, fileVars, procVars, calls, fails, untracked, panic>>

Spawned(p) ==
  /\ at(p, "spawned")
  /\ alive' = alive \cup {call[p].q}
  /\ fds' = [fds EXCEPT ![call[p].q] = Console]
  /\ cwd' = [cwd EXCEPT ![call[p].q] = SFS_ROOT_INUM]
  /\ Done(p)
  /\ UNCHANGED <<diskVars, inodeVars, i_lock, journal, f_ref, f_inode, calls, fails, ghostVars>>

ProcStep(p) ==
  \/ Chdir(p) \/ ChdirSet(p) \/ Close(p) \/ Exit(p) \/ Gone(p)
  \/ Fork(p) \/ ForkNoMem(p) \/ SpawnLoad(p) \/ Spawned(p)

\* sfs_read, sfs_write and sfs_readdir hold the inode's lock for the transfer.
Transfer(p) ==
  /\ at(p, "rw") /\ i_lock[call[p].arg] = NULL
  /\ IF call[p].op = "write" THEN Goto(p, "end") ELSE Done(p)
  /\ UNCHANGED <<diskVars, inodeVars, i_lock, journal, fileVars, procVars, calls, fails, ghostVars>>

-----------------------------------------------------------------------------
\* The system calls.  An argument that is refused at once changes nothing.
Enter(p, c) ==
  /\ p \in alive /\ at(p, "none") /\ calls < MaxCalls
  /\ calls' = calls + 1
  /\ call' = [call EXCEPT ![p] = c]
  /\ UNCHANGED <<diskVars, inodeVars, i_lock, journal, procVars, fails, untracked, panic>>

Walk(p, op, path) ==
  [NoCall EXCEPT !.op = op, !.at = "get", !.ret = "walk", !.arg = Start(p, path), !.elems = path.elems]

sys_open(p, op, path) ==
  /\ NullFds(p, 2) # {}
  /\ Enter(p, [Walk(p, op, path) EXCEPT !.fd = Min(NullFds(p, 2))])
  /\ UNCHANGED <<fileVars, lost>>

\* sys_unlink, sys_mkdir, sys_rmdir, sys_chdir.
sys_path(p, op, path) ==
  /\ Enter(p, Walk(p, op, path))
  /\ UNCHANGED <<fileVars, lost>>

sys_link(p, old, new) ==
  /\ Enter(p, [Walk(p, "link", old) EXCEPT !.new = new])
  /\ UNCHANGED <<fileVars, lost>>

sys_close(p, d) ==
  /\ fds[p][d] # NULL
  /\ Enter(p, [NoCall EXCEPT !.op = "close", !.at = "close", !.fd = d])
  /\ UNCHANGED <<fileVars, lost>>

sys_dup(p, d) ==
  /\ fds[p][d] # NULL /\ NullFds(p, 0) # {}
  /\ fds' = [fds EXCEPT ![p][Min(NullFds(p, 0))] = fds[p][d]]
  /\ f_ref' = IF fds[p][d] \in Objs THEN [f_ref EXCEPT ![fds[p][d]] = @ + 1] ELSE f_ref
  /\ Enter(p, NoCall)
  /\ UNCHANGED <<f_inode, lost>>

\* sys_pipe: two files without an inode.  Without two descriptors they are lost.
sys_pipe(p) ==
  /\ \E r, w \in FreeObjs :
       /\ r # w
       /\ f_ref' = [f_ref EXCEPT ![r] = 1, ![w] = 1]
       /\ f_inode' = [f_inode EXCEPT ![r] = NULL, ![w] = NULL]
       /\ IF Cardinality(NullFds(p, 0)) < 2
            THEN lost' = TRUE /\ UNCHANGED fds
            ELSE LET d == Min(NullFds(p, 0))
                 IN /\ fds' = [fds EXCEPT ![p][d] = r, ![p][Min(NullFds(p, 0) \ {d})] = w]
                    /\ UNCHANGED lost
  /\ Enter(p, NoCall)

\* sys_read, sys_readdir, sys_write on a file with an inode.
sys_transfer(p, d, op) ==
  /\ fds[p][d] \in Objs /\ f_inode[fds[p][d]] # NULL
  /\ Enter(p, [NoCall EXCEPT !.op = op, !.at = IF op = "write" THEN "begin" ELSE "rw",
                             !.arg = f_inode[fds[p][d]]])
  /\ UNCHANGED <<fileVars, lost>>

Unborn(q) == q \notin alive /\ \A r \in Procs : call[r].q # q

sys_fork(p, q) ==
  /\ Unborn(q)
  /\ Enter(p, [NoCall EXCEPT !.op = "fork", !.at = "get", !.ret = "fork", !.arg = SFS_ROOT_INUM, !.q = q])
  /\ UNCHANGED <<fileVars, lost>>

sys_spawn(p, q, path) ==
  /\ Unborn(q)
  /\ Enter(p, [NoCall EXCEPT !.op = "spawn", !.at = "get", !.ret = "load", !.arg = SFS_ROOT_INUM, !.q = q,
                             !.new = path])
  /\ UNCHANGED <<fileVars, lost>>

sys_exit(p) ==
  /\ Enter(p, [NoCall EXCEPT !.op = "exit", !.at = "exit"])
  /\ UNCHANGED <<fileVars, lost>>

Syscall(p) ==
  \/ \E op \in {"open", "creat"} : \E path \in Args[op] : sys_open(p, op, path)
  \/ \E op \in {"unlink", "mkdir", "rmdir", "chdir"} : \E path \in Args[op] : sys_path(p, op, path)
  \/ \E d \in DOMAIN fds[p] : \/ sys_close(p, d) \/ sys_dup(p, d)
                             \/ \E op \in {"read", "write"} : sys_transfer(p, d, op)
  \/ sys_pipe(p)
  \/ \E l \in Links : sys_link(p, l[1], l[2])
  \/ \E q \in Procs : sys_fork(p, q) \/ \E path \in Args["spawn"] : sys_spawn(p, q, path)
  \/ sys_exit(p)

Step(p) ==
  \/ InodeStep(p) \/ PathStep(p) \/ journal_begin_txn(p) \/ journal_end_txn(p)
  \/ OpenStep(p) \/ DirStep(p) \/ ProcStep(p) \/ Transfer(p)

Next == \E p \in Procs : Syscall(p) \/ Step(p)

Spec == Init /\ [][Next]_vars

(***************************************************************************)
(* Properties.                                                             *)
(***************************************************************************)

Calling(c) == c.at \in {"get", "valid", "rel"}
\* Where the call is, or where it goes on after fs_get_inode or fs_release_inode.
Place(c) == IF Calling(c) THEN c.ret ELSE c.at

\* The references a call in progress will release, by where it is (0: none).
HeldRoot(c) == IF c.op = "load" THEN SFS_ROOT_INUM ELSE 0
HeldArg(c) == IF c.at \in {"valid", "rel"} THEN c.arg ELSE 0
HoldsCur(c) ==
  \/ Place(c) \in {"walked", "find", "creat", "opened", "unlink", "unlinked"}
  \/ c.at \in {"alloc", "leaf", "open", "modify", "locksrc", "link"}
  \/ c.at = "begin" /\ c.op # "write"
HoldsGot(c) ==
  \/ c.at = "rel" /\ c.ret \in {"walk", "found", "chdir"}
  \/ c.at \in {"walk", "walked", "find", "found", "chdir", "opened", "unlink", "alloc", "fork", "load"}
Held(c) == <<c.src, HeldRoot(c), HeldArg(c), IF HoldsCur(c) THEN c.cur ELSE 0,
             IF HoldsGot(c) THEN c.got ELSE 0>>

\* A process that has released its directory, or is about to, in chdir or exit.
CwdGiven(c) == Place(c) \in {"chdir", "gone"}

\* Everybody who counts on inode i: calls, current directories, files, the cleanup list.
Holders(i, held) ==
  Cardinality({x \in Procs \X (1..5) : held[x[1]][x[2]] = i})
  + Cardinality({p \in alive : cwd[p] = i /\ ~CwdGiven(call[p])})
  + Cardinality({f \in Objs : f_ref[f] > 0 /\ f_inode[f] = i})
  + Cardinality({k \in DOMAIN cleanup : cleanup[k] = i})

\* An inode stays in the cache while a file, a process, a call or the cleanup list refers
\* to it, and no longer (fs_get_inode, fs_release_inode and all their callers), unless a
\* directory was opened as "/" or a process forked away from the root; on error paths
\* that drop a reference it may stay.
InodeRefsExact ==
  ~untracked /\ panic = {} =>
    LET held == [p \in Procs |-> Held(call[p])] IN
    \A i \in Inums :
      /\ i \in icache <=> i_ref[i] > 0
      /\ IF lost THEN i_ref[i] >= Holders(i, held) ELSE i_ref[i] = Holders(i, held)

\* An open file lives as long as descriptors of any process refer to it: dup, fork, close
\* and exit keep f_ref in step with the tables.
FileRefsExact ==
  \A f \in Objs :
    LET n == Cardinality({x \in Procs \X (0..(PROC_MAX_FILE - 1)) : fds[x[1]][x[2]] = f})
    IN /\ f_ref[f] = 0 => n <= 1
       /\ f_ref[f] > 0 => IF lost THEN f_ref[f] >= n ELSE f_ref[f] = n

\* An inode is handed over for cleanup once, and stays in the cache for it, with the
\* exception above.
HandedOverOnce == ~untracked => IsInjective(cleanup) /\ Range(cleanup) \subseteq icache

\* The counts of inodes and files are the numbers of their users, at every step of every
\* interleaving, so that nothing in use is freed and nothing unused is kept.
RefsExact == InodeRefsExact /\ FileRefsExact /\ HandedOverOnce

\* i_nlink is the number of names, however link, unlink and rmdir of several processes
\* interleave between finding an inode and modifying it.
LinksExact ==
  \A i \in Inums \ {SFS_ROOT_INUM} :
    i_nlink[i] = Entries(ent, i)

\* The name that a process is creating is cut.
CreatesLong == \E p \in Procs : at(p, "creat") /\ Long(call[p].elems[1])

\* An assertion of fs.c or sfs.c on these paths fails only for its own cause: an inode is
\* released once too often only after the counts were spoilt as above; an inode is freed
\* with its first reference when memory ends inside fs_get_inode; a name comes or goes
\* between two lookups under one lock only when the directory cannot be read, or when a
\* file is created under a name that is too long to be found again.
AssertionsHold ==
  [][panic' # panic =>
       \/ panic' = {"freed inode"} /\ untracked
       \/ panic' = {"i_ref == 0"} /\ fails' > fails
       \/ panic' = {"err != ERR_EXIST"} /\ fails > 0
       \/ panic' = {"err != ERR_NOTEXIST"} /\ (fails' > fails \/ CreatesLong)]_vars

\* What process p waits for is held: a sleeplock or the journal.
Waits(p) ==
  LET c == call[p]
      held(i) == i_lock[i] # NULL
  IN \/ c.at \in {"valid", "rel", "rw"} /\ held(c.arg)
     \/ c.at \in {"walk", "unlink"} /\ c.got # 0 /\ held(c.got)
     \/ c.at \in {"open", "modify", "link"} /\ c.elems # <<>> /\ held(c.cur)
     \/ c.at = "locksrc" /\ held(c.src)
     \/ c.at = "begin" /\ journal # NULL

\* fs_link holds its source and waits for the directory; a walk holds the directory and
\* waits for the source, which its path uses as a directory.
LinkDeadlock ==
  \E p, q \in Procs :
    /\ at(p, "link") /\ i_lock[call[p].cur] = q
    /\ at(q, "valid") /\ call[q].arg = call[p].src

\* Of the processes in system calls one can always go on (the order in which i_lock of
\* parent and child, and the journal, are taken), unless two wait as above.
SomeCallGoesOn ==
  LET busy == {p \in Procs : ~at(p, "none")}
  IN busy # {} => (\E p \in busy : ~Waits(p)) \/ LinkDeadlock
=============================================================================
