-------------------------------- MODULE Sfs --------------------------------
(***************************************************************************)
(* The simple file system (kernel/fs/sfs/sfs.c) on a disk made by           *)
(* tools/mkfs.c.  An operation runs under the locks of its inodes and, if   *)
(* it modifies, in the one open transaction, so it is one step; inside it   *)
(* the k-th fetch of a block that is not in use fails (Bdev), for any k.    *)
(* A block has PER_BLK slots, each a directory entry, a block number or a   *)
(* unit of data.                                                            *)
(***************************************************************************)
EXTENDS Integers, Sequences, FiniteSets, FiniteSetsExt, SequencesExt, Outcome

CONSTANTS
  NINODES, NDATA,          \* s_num_inodes, s_size
  PER_BLK,
  SFS_NDIRECT, SFS_NINDIRECT,
  Names, NoName,
  Stored,                  \* how each name is stored: at most 27 characters of it
  Images,                  \* what mkfs puts in the root: <<[name, data], ...>>
  Vals,
  MaxCount, MaxCalls, MaxFail

VARIABLES
  fs,                      \* disk, in-memory inodes and the state of the call
  calls

vars == <<fs, calls>>

Inums == 1..NINODES
SFS_ROOT_INUM == 1
SFS_INODE_BMAP_BLK == 2
SFS_INODE_TABLE_BLK == 3
DATA_BMAP_BLK == 4
DataBlks == 5..(4 + NDATA)
SFS_MAX_FILE_BLKS == SFS_NDIRECT + SFS_NINDIRECT * PER_BLK
SFS_MAX_FILE_SIZE == SFS_MAX_FILE_BLKS * PER_BLK

Empty == [n |-> 0, name |-> NoName]
ZeroBlk == [k \in 0..(PER_BLK - 1) |-> Empty]
Inode(t, links) == [ftype |-> t, nlink |-> links, size |-> 0,
                    addrs |-> [k \in 0..(SFS_NDIRECT + SFS_NINDIRECT - 1) |-> 0]]

-----------------------------------------------------------------------------
\* A block is pinned (bdev_get_blk_unlocked), and locked too (bdev_get_blk).  A block that
\* is pinned by the call or logged is in memory, so this cannot fail for it; a lock that
\* the call already holds would never be had.
Pin(s, b) ==
  LET cached == b \in s.log \/ s.ref[b] > 0
  IN IF cached \/ s.fail # 1
       THEN [s EXCEPT !.ref[b] = @ + 1, !.err = "OK", !.fail = IF cached \/ @ = 0 THEN @ ELSE @ - 1]
       ELSE [s EXCEPT !.fail = 0, !.err = "NOMEM"]
Unpin(s, b) == [s EXCEPT !.ref[b] = @ - 1]
Get(s, b) ==
  Then(Pin(s, b), LAMBDA p : IF b \in p.held THEN Panic(p, "deadlock") ELSE [p EXCEPT !.held = @ \cup {b}])
Put(s, b) ==
  IF b \in s.held THEN [Unpin(s, b) EXCEPT !.held = @ \ {b}] ELSE Panic(Unpin(s, b), "release")
Log(s, b) == [s EXCEPT !.log = @ \cup {b}]

\* fs_get_inode: the inode in memory is read if it is not dirty, since it may have been
\* dropped in between.
sfs_read_inode(s, i) ==
  IF i \in s.dirty THEN Val(s, i)
  ELSE Then(Get(s, SFS_INODE_TABLE_BLK),
            LAMBDA g : Val([Put(g, SFS_INODE_TABLE_BLK) EXCEPT !.mem[i] = g.tab[i]], i))

sfs_write_inode(s, i) ==
  Then(Get(s, SFS_INODE_TABLE_BLK),
       LAMBDA g : Log([Put(g, SFS_INODE_TABLE_BLK) EXCEPT !.tab[i] = g.mem[i], !.dirty = @ \ {i}],
                      SFS_INODE_TABLE_BLK))

\* An inode is changed, set dirty and written; the callers ignore the error.
SetInode(s, i, inode) ==
  Err(sfs_write_inode([s EXCEPT !.mem[i] = inode, !.dirty = @ \cup {i}], i), "OK")

\* The lowest free inode, taken back if the table cannot be had.
alloc_disk_inode(s, t) ==
  LET take(g, i) ==
        Cases(Get(Log([g EXCEPT !.ibmap = @ \cup {i}], SFS_INODE_BMAP_BLK), SFS_INODE_TABLE_BLK),
              LAMBDA u : Val(Log([Put(u, SFS_INODE_TABLE_BLK) EXCEPT !.tab[i] = Inode(t, 1)],
                                 SFS_INODE_TABLE_BLK), i),
              LAMBDA u : [u EXCEPT !.ibmap = @ \ {i}])
  IN Then(Get(s, SFS_INODE_BMAP_BLK),
          LAMBDA g : Put(IF Inums \subseteq g.ibmap THEN Err(g, "NORES") ELSE take(g, Min(Inums \ g.ibmap)),
                         SFS_INODE_BMAP_BLK))

free_disk_inode(s, i) ==
  Then(Get(s, SFS_INODE_BMAP_BLK),
       LAMBDA g : Log([Put(g, SFS_INODE_BMAP_BLK) EXCEPT !.ibmap = @ \ {i}], SFS_INODE_BMAP_BLK))

\* Mutant: the bit stays set when the block cannot be had.
AllocKeepsBit(s) ==
  LET take(g, b) == Then(Get(Log([g EXCEPT !.dbmap = @ \cup {b}], DATA_BMAP_BLK), b),
                         LAMBDA d : Val(Log([Put(d, b) EXCEPT !.blk[b] = ZeroBlk], b), b))
  IN Then(Get(s, DATA_BMAP_BLK),
          LAMBDA g : Put(IF DataBlks \subseteq g.dbmap THEN Err(g, "NORES") ELSE take(g, Min(DataBlks \ g.dbmap)),
                         DATA_BMAP_BLK))

\* The lowest free block, filled with zero.
alloc_data_block(s) ==
  LET take(g, b) ==
        Cases(Get(Log([g EXCEPT !.dbmap = @ \cup {b}], DATA_BMAP_BLK), b),
              LAMBDA d : Val(Log([Put(d, b) EXCEPT !.blk[b] = ZeroBlk], b), b),
              LAMBDA d : [d EXCEPT !.dbmap = @ \ {b}])
  IN Then(Get(s, DATA_BMAP_BLK),
          LAMBDA g : Put(IF DataBlks \subseteq g.dbmap THEN Err(g, "NORES") ELSE take(g, Min(DataBlks \ g.dbmap)),
                         DATA_BMAP_BLK))

free_data_block(s, b) ==
  Then(Get(s, DATA_BMAP_BLK),
       LAMBDA g : Log([Put(g, DATA_BMAP_BLK) EXCEPT !.dbmap = @ \ {b}], DATA_BMAP_BLK))

\* Where in i_addrs block index k of a file is found.
AddrOf(k) == IF k < SFS_NDIRECT THEN k ELSE SFS_NDIRECT + (k - SFS_NDIRECT) \div PER_BLK

\* The block i_addrs[a], allocated if it may be.
AddrBlk(s, i, a, alloc) ==
  IF s.mem[i].addrs[a] # 0 THEN Val(s, s.mem[i].addrs[a])
  ELSE IF ~alloc THEN Err(s, "NOTEXIST")
  ELSE Then(alloc_data_block(s), LAMBDA n : SetInode(n, i, [n.mem[i] EXCEPT !.addrs[a] = n.val]))

\* The block in slot k of the indirect block b.
IndirectBlk(s, b, k, alloc) ==
  IF s.blk[b][k].n # 0 THEN Val(s, s.blk[b][k].n)
  ELSE IF ~alloc THEN Err(s, "NOTEXIST")
  ELSE Then(alloc_data_block(s), LAMBDA n : Log([n EXCEPT !.blk[b][k] = [n |-> n.val, name |-> NoName]], b))

\* The block of file i at ofs, locked.  The inode's block is pinned for the call.  An
\* indirect block is released before the data block is fetched, and once more if that fails.
get_data_block(s, i, ofs, alloc) ==
  LET k == ofs \div PER_BLK
      indirect(a, b) ==
        Then(Get(a, b), LAMBDA h :
          Then(Put(IndirectBlk(h, b, (k - SFS_NDIRECT) % PER_BLK, alloc), b), LAMBDA e :
            Else(Get(e, e.val), LAMBDA d : Panic(Unpin(d, b), "twice"))))
  IN Then(Pin(s, SFS_INODE_TABLE_BLK), LAMBDA g :
       IF ofs >= SFS_MAX_FILE_SIZE THEN Panic(Err(g, "NOMEM"), "limit")
       ELSE Unpin(Then(AddrBlk(g, i, AddrOf(k), alloc),
                       LAMBDA a : IF k < SFS_NDIRECT THEN Get(a, a.val) ELSE indirect(a, a.val)),
                  SFS_INODE_TABLE_BLK))

-----------------------------------------------------------------------------
\* The block at index k of file i, 0 if there is none, and the slot at ofs.
BlkAt(s, i, k) ==
  LET b == s.mem[i].addrs[AddrOf(k)]
  IN IF k < SFS_NDIRECT \/ b = 0 THEN b ELSE s.blk[b][(k - SFS_NDIRECT) % PER_BLK].n
SlotAt(s, i, ofs) == s.blk[BlkAt(s, i, ofs \div PER_BLK)][ofs % PER_BLK]
Used(s, d) == {ofs \in 0..(s.mem[d].size - 1) : SlotAt(s, d, ofs).n > 0}
Hits(s, d, name) == {ofs \in Used(s, d) : SlotAt(s, d, ofs).name = name}

\* The loops over a directory fetch its blocks in order and stop at an error; the last is
\* still held.
RECURSIVE Visit(_, _, _, _, _)
Visit(s, d, k, last, alloc) ==
  Then(get_data_block(s, d, k * PER_BLK, alloc),
       LAMBDA g : IF k = last THEN g ELSE Visit(Put(g, g.val), d, k + 1, last, alloc))

\* Up to the first of the slots looked for, or through the directory if there is none.
Scan(s, d, hits) ==
  IF s.mem[d].size = 0 THEN s
  ELSE Then(Visit(s, d, 0, (IF hits = {} THEN s.mem[d].size - 1 ELSE Min(hits)) \div PER_BLK, FALSE),
            LAMBDA v : Put(v, v.val))

\* 0 if there is no match, or after an error.
search_dir(s, d, name) ==
  Cases(Scan(s, d, Hits(s, d, name)),
        LAMBDA v : Val(v, LET hits == Hits(v, d, name) IN IF hits = {} THEN 0 ELSE SlotAt(v, d, Min(hits)).n),
        LAMBDA v : [Val(v, 0) EXCEPT !.misread = TRUE])

\* The first free slot, or a new one at the end; the size is written first.
alloc_dirent(s, d, name, i) ==
  LET size == s.mem[d].size
      free == (0..size \ Used(s, d)) \cap 0..(SFS_MAX_FILE_SIZE - 1)
      ofs == IF free = {} THEN SFS_MAX_FILE_SIZE - 1 ELSE Min(free)
      set(w, b) == Log([w EXCEPT !.blk[b][ofs % PER_BLK] = [n |-> i, name |-> Stored[name]]], b)
  IN Then(Pin(s, SFS_INODE_TABLE_BLK), LAMBDA g :
       Unpin(Then(Visit(g, d, 0, ofs \div PER_BLK, TRUE), LAMBDA v :
               Put(IF free = {} THEN Err(v, "NORES")
                   ELSE set(IF ofs < size THEN v ELSE SetInode(v, d, [v.mem[d] EXCEPT !.size = ofs + 1]), v.val),
                   v.val)),
             SFS_INODE_TABLE_BLK))

\* The slot is marked free; the size stays.
free_dirent(s, d, name) ==
  LET ofs == Min(Hits(s, d, name))
      b == BlkAt(s, d, ofs \div PER_BLK)
  IN Then(Scan(s, d, Hits(s, d, name)), LAMBDA v :
       IF Hits(s, d, name) = {} THEN Err(v, "NOTEXIST")
       ELSE Log([v EXCEPT !.blk[b][ofs % PER_BLK].n = 0], b))

\* Mutant: a directory that cannot be read counts as empty.
EmptyAfterError(s, d) ==
  Cases(Scan(s, d, Used(s, d)), LAMBDA v : IF Used(v, d) = {} THEN v ELSE Err(v, "NOTEMPTY"),
        LAMBDA v : Err(v, "OK"))

is_dir_empty(s, d) ==
  Then(Scan(s, d, Used(s, d)), LAMBDA v : IF Used(v, d) = {} THEN v ELSE Err(v, "NOTEMPTY"))

-----------------------------------------------------------------------------
\* The inode bitmap is pinned, so that the inode can be freed again.
create_inode_in_dir(s, d, t, name) ==
  LET enter(a, i) == Else(alloc_dirent(a, d, name, i), LAMBDA e : Err(free_disk_inode(e, i), e.err))
      create(r) == Then(Pin(r, SFS_INODE_BMAP_BLK), LAMBDA g :
                     Unpin(Then(alloc_disk_inode(g, t), LAMBDA a : enter(a, a.val)), SFS_INODE_BMAP_BLK))
  IN Then(search_dir(s, d, name), LAMBDA r : IF r.val # 0 THEN Err(r, "EXIST") ELSE create(r))

\* With sfs_lookup.
unlink_inode_in_dir(s, d, t, name) ==
  LET remove(g, i) ==
        Then(IF t = "dir" THEN is_dir_empty(g, i) ELSE g, LAMBDA m :
          Then(free_dirent(m, d, name), LAMBDA e :
            SetInode(e, i, [e.mem[i] EXCEPT !.nlink = @ - 1])))
      unlink(r, i) ==
        Then(sfs_read_inode(r, i), LAMBDA l :
          Then(Pin(l, SFS_INODE_TABLE_BLK), LAMBDA g :
            IF g.mem[i].nlink = 0 THEN Panic(g, "nlink")
            ELSE Unpin(IF g.mem[i].ftype # t THEN Err(g, "FTYPE") ELSE remove(g, i), SFS_INODE_TABLE_BLK)))
  IN Then(search_dir(s, d, name), LAMBDA r : IF r.val = 0 THEN Err(r, "NOTEXIST") ELSE unlink(r, r.val))

\* Mutant: the block of the inode is locked.
LinkLocked(s, d, i, name) ==
  LET link(r) ==
        Then(Get(r, SFS_INODE_TABLE_BLK), LAMBDA g :
          Put(Then(alloc_dirent(g, d, name, i), LAMBDA e : SetInode(e, i, [e.mem[i] EXCEPT !.nlink = @ + 1])),
              SFS_INODE_TABLE_BLK))
  IN Then(search_dir(s, d, name), LAMBDA r : IF r.val # 0 THEN Err(r, "EXIST") ELSE link(r))

sfs_link(s, d, i, name) ==
  LET link(r) ==
        Then(Pin(r, SFS_INODE_TABLE_BLK), LAMBDA g :
          Unpin(Then(alloc_dirent(g, d, name, i), LAMBDA e : SetInode(e, i, [e.mem[i] EXCEPT !.nlink = @ + 1])),
                SFS_INODE_TABLE_BLK))
  IN Then(search_dir(s, d, name), LAMBDA r : IF r.val # 0 THEN Err(r, "EXIST") ELSE link(r))

\* Mutant: as if every part began at the start of its block.
RECURSIVE ReadWhole(_, _, _, _)
ReadWhole(s, i, count, ofs) ==
  LET n == Min({PER_BLK, count, s.mem[i].size - ofs})
      after(g, r) == [r EXCEPT !.val = [k \in 1..n |-> g.blk[g.val][(ofs + k - 1) % PER_BLK].n] \o @]
  IN IF count = 0 \/ ofs >= s.mem[i].size THEN [s EXCEPT !.val = <<>>]
     ELSE Cases(get_data_block(s, i, ofs, FALSE),
                LAMBDA g : after(g, ReadWhole(Put(g, g.val), i, count - n, ofs + n)),
                LAMBDA g : [g EXCEPT !.val = <<>>])

\* What can be read of count units at ofs.
RECURSIVE read_data(_, _, _, _)
read_data(s, i, count, ofs) ==
  LET o == ofs % PER_BLK
      n == Min({PER_BLK - o, count, s.mem[i].size - ofs})
      after(g, r) == [r EXCEPT !.val = [k \in 1..n |-> g.blk[g.val][o + k - 1].n] \o @]
  IN IF count = 0 \/ ofs >= s.mem[i].size THEN [s EXCEPT !.val = <<>>]
     ELSE Cases(get_data_block(s, i, ofs, FALSE),
                LAMBDA g : after(g, read_data(Put(g, g.val), i, count - n, ofs + n)),
                LAMBDA g : [g EXCEPT !.val = <<>>])

\* Block by block; val is the offset reached.
RECURSIVE WriteBlks(_, _, _, _)
WriteBlks(s, i, data, ofs) ==
  LET o == ofs % PER_BLK
      n == Min({PER_BLK - o, Len(data)})
      new(old) == [k \in 0..(PER_BLK - 1) |->
                     IF k \in o..(o + n - 1) THEN [n |-> data[k - o + 1], name |-> NoName] ELSE old[k]]
  IN IF data = <<>> THEN [s EXCEPT !.val = ofs]
     ELSE Cases(get_data_block(s, i, ofs, TRUE),
                LAMBDA g : WriteBlks(Put(Log([g EXCEPT !.blk[g.val] = new(@)], g.val), g.val),
                                     i, SubSeq(data, n + 1, Len(data)), ofs + n),
                LAMBDA g : [g EXCEPT !.val = ofs])

write_data(s, i, data, ofs) ==
  LET size(w) == IF w.val > w.mem[i].size THEN SetInode(w, i, [w.mem[i] EXCEPT !.size = w.val]) ELSE w
  IN size(WriteBlks(s, i, data, ofs))

\* sfs_delete_inode, which only the cleanup thread calls: the blocks that hold the first
\* i_size units, then the inode.
RECURSIVE FreeSlots(_, _, _, _)
FreeSlots(s, b, k, n) ==
  IF k = n THEN s
  ELSE IF k = PER_BLK THEN Panic(s, "overrun")
  ELSE IF s.blk[b][k].n = 0 THEN FreeSlots(s, b, k + 1, n)
  ELSE Then(free_data_block(s, s.blk[b][k].n),
            LAMBDA f : FreeSlots(Log([f EXCEPT !.blk[b][k] = Empty], b), b, k + 1, n))

RECURSIVE FreeBlks(_, _, _, _)
FreeBlks(s, i, a, size) ==
  LET b == s.mem[i].addrs[a]
      left == (s.mem[i].size - size + PER_BLK - 1) \div PER_BLK
      slots == IF a < SFS_NDIRECT THEN s
               ELSE Then(Get(s, b), LAMBDA g : Then(FreeSlots(g, b, 0, left), LAMBDA h : Put(h, b)))
      n == IF a < SFS_NDIRECT THEN 1 ELSE left
  IN IF size >= s.mem[i].size THEN s
     ELSE IF a \notin DOMAIN s.mem[i].addrs THEN Panic(s, "overrun")
     ELSE IF b = 0 THEN FreeBlks(s, i, a + 1, size)
     ELSE Then(slots, LAMBDA h : Then(free_data_block(h, b), LAMBDA f :
            FreeBlks([f EXCEPT !.mem[i].addrs[a] = 0], i, a + 1, size + n * PER_BLK)))


sfs_delete_inode(s, i) ==
  Then(FreeBlks(s, i, 0, 0), LAMBDA d : Then(free_disk_inode(d, i), LAMBDA f : [f EXCEPT !.dirty = @ \ {i}]))

-----------------------------------------------------------------------------
\* mkfs: alloc_inode, inode_append with get_data_block and alloc_data_block, one slot at
\* a time, and main.  It fails only by giving up.
MkAlloc(s) ==
  LET b == Min(DataBlks \ s.dbmap)
  IN [s EXCEPT !.dbmap = @ \cup {b}, !.blk[b] = ZeroBlk, !.val = b]

MkBlk(s, i, k) ==
  LET a == AddrOf(k)
      n == MkAlloc(s)
      t == IF s.tab[i].addrs[a] = 0 THEN [n EXCEPT !.tab[i].addrs[a] = n.val] ELSE s
      b == t.tab[i].addrs[a]
      o == (k - SFS_NDIRECT) % PER_BLK
      m == MkAlloc(t)
  IN IF k < SFS_NDIRECT THEN [t EXCEPT !.val = b]
     ELSE IF t.blk[b][o].n # 0 THEN [t EXCEPT !.val = t.blk[b][o].n]
     ELSE [m EXCEPT !.blk[b][o].n = m.val]

inode_append(s, i, slots) ==
  FoldLeft(LAMBDA t, x : LET size == t.tab[i].size
                             g == MkBlk(t, i, size \div PER_BLK)
                         IN [g EXCEPT !.blk[g.val][size % PER_BLK] = x, !.tab[i].size = @ + 1],
           s, slots)

alloc_inode(s, t) ==
  LET i == Min(Inums \ s.ibmap) IN [s EXCEPT !.ibmap = @ \cup {i}, !.tab[i] = Inode(t, 1), !.val = i]

Mkfs(files) ==
  LET zero == [ibmap |-> {}, dbmap |-> {}, tab |-> [i \in Inums |-> Inode("none", 0)],
               blk |-> [b \in DataBlks |-> ZeroBlk],
               mem |-> [i \in Inums |-> Inode("none", 0)], dirty |-> {},
               ref |-> [b \in SFS_INODE_BMAP_BLK..(4 + NDATA) |-> 0], held |-> {}, log |-> {},
               fail |-> 0, err |-> "OK", val |-> 0, misread |-> FALSE, panic |-> "none"]
      add(s, f) ==
        LET a == alloc_inode(s, "file")
            e == inode_append(a, SFS_ROOT_INUM, <<[n |-> a.val, name |-> Stored[f.name]]>>)
        IN inode_append(e, a.val, [k \in 1..Len(f.data) |-> [n |-> f.data[k], name |-> NoName]])
  IN [FoldLeft(add, alloc_inode(zero, "dir"), files) EXCEPT !.val = 0]

-----------------------------------------------------------------------------
\* A call enters with the number k of the fetch that will fail, and leaves the journal empty.
Call(k, Op(_)) ==
  /\ calls < MaxCalls /\ fs.panic = "none"
  /\ fs' = LET r == Op([fs EXCEPT !.fail = k, !.err = "OK"]) IN [r EXCEPT !.log = {}, !.val = 0]
  /\ k = 0 \/ fs'.fail = 0           \* the k-th fetch is reached
  /\ calls' = calls + 1

With(s, i, Op(_)) == Then(sfs_read_inode(s, i), Op)

Init == fs \in {Mkfs(files) : files \in Images} /\ calls = 0

Dirs == {i \in fs.ibmap : fs.tab[i].ftype = "dir"}
Regular == {i \in fs.ibmap : fs.tab[i].ftype = "file"}
Size(i) == IF i \in fs.dirty THEN fs.mem[i].size ELSE fs.tab[i].size

sfs_create(d, name, k) == Call(k, LAMBDA s : With(s, d, LAMBDA t : create_inode_in_dir(t, d, "file", name)))
sfs_mkdir(d, name, k) == Call(k, LAMBDA s : With(s, d, LAMBDA t : create_inode_in_dir(t, d, "dir", name)))
sfs_unlink(d, name, k) == Call(k, LAMBDA s : With(s, d, LAMBDA t : unlink_inode_in_dir(t, d, "file", name)))
sfs_rmdir(d, name, k) == Call(k, LAMBDA s : With(s, d, LAMBDA t : unlink_inode_in_dir(t, d, "dir", name)))
Link(d, i, name, k) ==
  Call(k, LAMBDA s : With(s, i, LAMBDA t : With(t, d, LAMBDA u : sfs_link(u, d, i, name))))
sfs_read(i, count, ofs, k) == Call(k, LAMBDA s : With(s, i, LAMBDA t : read_data(t, i, count, ofs)))
sfs_readdir(d, ofs, k) ==
  Call(k, LAMBDA s : With(s, d, LAMBDA t : IF t.mem[d].size < ofs + 1 THEN Err(t, "END") ELSE read_data(t, d, 1, ofs)))
sfs_write(i, data, ofs, k) == Call(k, LAMBDA s : With(s, i, LAMBDA t : write_data(t, i, data, ofs)))

Next ==
  \E k \in 0..MaxFail :
    \/ \E d \in Dirs, name \in Names : sfs_create(d, name, k)
    \/ \E d \in Dirs, name \in Names : sfs_mkdir(d, name, k)
    \/ \E d \in Dirs, name \in Names : sfs_unlink(d, name, k)
    \/ \E d \in Dirs, name \in Names : sfs_rmdir(d, name, k)
    \/ \E d \in Dirs, i \in Regular, name \in Names : Link(d, i, name, k)
    \/ \E d \in Dirs : \E ofs \in 0..Size(d) : sfs_readdir(d, ofs, k)
    \/ \E i \in Regular : \E ofs \in 0..Size(i) : sfs_read(i, MaxCount, ofs, k)
    \/ \E i \in Regular, v \in Vals, n \in {1, MaxCount} : \E ofs \in 0..Size(i) :
         sfs_write(i, [j \in 1..n |-> v], ofs, k)

Spec == Init /\ [][Next]_vars

-----------------------------------------------------------------------------
\* The file system as it stands: inodes that could not be written are current in memory.
View == [fs EXCEPT !.mem = [i \in Inums |-> IF i \in fs.dirty THEN fs.mem[i] ELSE fs.tab[i]]]
Content(s, i) == [k \in 1..s.mem[i].size |-> SlotAt(s, i, k - 1)]
Entries(s) == {<<d, ofs>> \in Dirs \X (0..(SFS_MAX_FILE_SIZE - 1)) : ofs \in Used(s, d)}
Entry(s, e) == SlotAt(s, e[1], e[2])

\* Every place that names a block: <<inode, index in i_addrs, slot of the indirect block, block>>.
Places(s) ==
  LET addrs == {<<i, a>> \in fs.ibmap \X DOMAIN Inode("none", 0).addrs : s.mem[i].addrs[a] # 0}
      slots == {<<x, k>> \in {y \in addrs : y[2] >= SFS_NDIRECT} \X DOMAIN ZeroBlk :
                  s.blk[s.mem[x[1]].addrs[x[2]]][k].n # 0}
  IN {<<x[1], x[2], -1, s.mem[x[1]].addrs[x[2]]>> : x \in addrs}
     \cup {<<y[1][1], y[1][2], y[2], s.blk[s.mem[y[1][1]].addrs[y[1][2]]][y[2]].n>> : y \in slots}

(* The data bitmap is exact: a block is allocated iff one, and only one, place in an
   inode or an indirect block names it, whichever fetch of whichever call has failed
   (alloc_data_block, get_data_block).  No two files share a block and none is lost. *)
BlocksExact ==
  LET p == Places(View)
  IN fs.dbmap = {x[4] : x \in p} /\ Cardinality(p) = Cardinality(fs.dbmap)

(* i_nlink counts the entries that name the inode, and one for the root.  Entries name
   allocated inodes only, and an inode whose entry could not be made is free again
   (create_inode_in_dir, unlink_inode_in_dir, sfs_link). *)
LinksExact ==
  LET s == View
      e == Entries(s)
  IN /\ \A x \in e : Entry(s, x).n \in fs.ibmap
     /\ \A i \in fs.ibmap : s.mem[i].nlink = Cardinality({x \in e : Entry(s, x).n = i})
                                             + (IF i = SFS_ROOT_INUM THEN 1 ELSE 0)

(* A name is in a directory once, unless search_dir, which cannot report an error, was
   cut short by one, or the name is what is stored of a longer one, which is never found
   again. *)
NamesUnique ==
  LET s == View
      e == Entries(s)
  IN \A x, y \in e :
       x[1] = y[1] /\ x # y /\ Entry(s, x).name = Entry(s, y).name =>
         fs.misread \/ \E n \in Names : n # Stored[n] /\ Stored[n] = Entry(s, x).name

(* No call asks for a block lock that it holds, and at the end of every call no block is
   pinned or locked.  What stops the kernel is a write that reaches SFS_MAX_FILE_SIZE,
   and the fetch of a data block that fails after its indirect block was released, which
   is then released once more (get_data_block). *)
NothingHeld ==
  /\ fs.panic \in {"none", "limit", "twice"}
  /\ fs.panic = "none" => fs.held = {} /\ \A b \in DOMAIN fs.ref : fs.ref[b] = 0

(* What is read is what the file holds, up to the block that could not be had, whatever
   offset and length are asked for (read_data). *)
ReadsBack ==
  LET s == View
  IN \A i \in Regular, n \in {1, MaxCount}, k \in 0..MaxFail : \A ofs \in 0..Size(i) :
       LET c == Content(s, i)
           want == [j \in 1..Min({n, Len(c) - ofs}) |-> c[ofs + j].n]
           r == read_data([s EXCEPT !.fail = k], i, n, ofs)
       IN IF k = 0 \/ r.fail # 0 THEN r.val = want ELSE r.val = SubSeq(want, 1, Len(r.val))

(* Bitmaps, link counts and directories agree after every call, whichever of its block
   fetches failed. *)
DiskConsistent == BlocksExact /\ LinksExact /\ NamesUnique


Store(s) == INSTANCE FileStore WITH
  names <- {<<x[1], Entry(s, x).name, Entry(s, x).n>> : x \in Entries(s)},
  data <- [i \in Inums |-> IF i \in Regular THEN [k \in 1..s.mem[i].size |-> SlotAt(s, i, k - 1).n] ELSE <<>>],
  err <- s.err,
  Writes <- {[j \in 1..n |-> v] : v \in Vals, n \in 1..MaxCount},
  Names0 <- {}, Data0 <- [i \in Inums |-> <<>>]
(* Every call, whichever of its fetches fails, adds a name, removes one, writes part of
   one file, or does nothing; and it reports an error only if it did nothing or wrote less. *)
ImplementsFileStore == [][Store(View)!Next]_vars
=============================================================================
