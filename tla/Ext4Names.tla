------------------------------ MODULE Ext4Names ------------------------------
(***************************************************************************)
(* The namespace of the ext4 volume, os/src/fs/ext4_vol.rs: the directory  *)
(* tree on disk and the four caches laid over it (PATH_CACHE,              *)
(* NEGATIVE_PATH_CACHE, DIR_CACHE, INODE_METADATA_CACHE).  Inode numbers   *)
(* are reused, so a stale cache entry can name somebody else's file.       *)
(*                                                                         *)
(* NAMESPACE_LOCK is the writer or the readers among the threads: a lookup *)
(* holds it shared from the first cache probe to the last publication, a   *)
(* mutation holds it exclusively.  Metadata, chmod, open and close by      *)
(* inode number run outside it.  Unlinking is split where the code looks   *)
(* at the open references and copies the inode before it takes             *)
(* EXT4_MUTATION_LOCK.  The disk operations of the ext4_rs crate           *)
(* (directory entries, link counts, inode allocation) are taken as atomic; *)
(* block contents are the subject of module Ext4Data.                      *)
(***************************************************************************)
EXTENDS Naturals, Sequences, FiniteSets, FiniteSetsExt

CONSTANTS E4Threads,   \* threads in ext4 calls
          Names,       \* directory entry names
          Temp,        \* the name .wll_rename_exchange_...
          Inos,        \* inode numbers 1..n; 1 is the root
          E4Paths,     \* absolute paths: sequences of names
          Modes,       \* permission bits
          MaxRefs,     \* bound on open references of one inode
          MaxHops,     \* links followed in one walk (40 in the code)
          NoIno, NoEntry

VARIABLES vol,    \* the volume and its caches
          refs,   \* OPEN_REGULAR_REFS
          pend,   \* PENDING_UNLINK_REGULAR
          e4      \* what each thread is doing
e4Vars == <<vol, refs, pend, e4>>

RootIno == 1
NewInode == [used |-> FALSE, kind |-> "none", links |-> 0, mode |-> 0, to |-> <<>>]
Freed(n) == [n EXCEPT !.used = FALSE, !.links = 0]   \* the mode bits stay on disk
EmptyDir == [n \in Names |-> NoIno]
E4Idle == [pc |-> "idle", call |-> "none", p |-> <<>>, q |-> <<>>, ino |-> NoIno, dir |-> NoIno,
           copy |-> NewInode, dcopy |-> NewInode, delay |-> FALSE, got |-> NoEntry]

Parent(p) == SubSeq(p, 1, Len(p) - 1)
Leaf(p) == p[Len(p)]
Below(p, q) == Len(q) > Len(p) /\ SubSeq(q, 1, Len(p)) = p

----------------------------------------------------------------------------
(* Lookup: the answer, and the volume with what the lookup publishes.      *)

(* cached_dir_entries_locked and inode_kind: the cache when it has the     *)
(* answer, the disk otherwise.                                             *)
Listing(v, i) == IF v.dirc[i] = NoEntry THEN v.dirs[i] ELSE v.dirc[i]
Publish(v, D) == [v EXCEPT !.dirc = [i \in Inos |-> IF i \in D THEN Listing(v, i) ELSE @[i]]]
InodeKind(v, i) == IF v.metac[i] = NoEntry THEN v.inode[i].kind ELSE v.metac[i].kind

(* The inodes met on the way down: the n-th is NoIno when the walk ended.  *)
Steps(v, p) ==
    LET at[n \in 0 .. Len(p)] ==
          IF n = 0 THEN RootIno
          ELSE IF at[n - 1] = NoIno \/ (n > 1 /\ v.inode[at[n - 1]].kind # "dir") THEN NoIno
          ELSE Listing(v, at[n - 1])[p[n]]
    IN at
DirsMet(v, at, last) ==
    {at[n] : n \in {m \in 0 .. last : at[m] # NoIno /\ (m = 0 \/ v.inode[at[m]].kind = "dir")}}
Listed(v, p) == DirsMet(v, Steps(v, p), Len(p) - 1)

EntryOf(v, i) == IF i = NoIno THEN NoEntry ELSE [ino |-> i, kind |-> InodeKind(v, i)]
Found(v, p) ==
    IF v.path[p] # NoEntry THEN v.path[p]
    ELSE IF p \in v.neg THEN NoEntry
    ELSE EntryOf(v, Steps(v, p)[Len(p)])

(* resolve_existing_locked: the answer f goes into one of the two caches.  *)
Remember(v, p, f) ==
    IF f = NoEntry THEN [v EXCEPT !.neg = @ \cup {p}] ELSE [v EXCEPT !.path[p] = f]
Looked(v, p) ==
    IF v.path[p] # NoEntry \/ p \in v.neg THEN v
    ELSE Remember(Publish(v, Listed(v, p)), p, Found(v, p))

IsDir(f) == f # NoEntry /\ f.kind = "dir"

----------------------------------------------------------------------------
(* Mutations, under the exclusive transaction.                             *)

LowestFree(v) == {i \in Inos : ~v.inode[i].used /\ \A j \in Inos : v.inode[j].used \/ i <= j}

InvalidatePathCache_ExactOnly(v, p) ==
    [v EXCEPT !.path = [q \in E4Paths |-> IF q = p THEN NoEntry ELSE @[q]],
              !.neg = @ \ {p}]

(* The path itself and everything under it. *)
InvalidatePathCache(v, p) ==
    [v EXCEPT !.path = [q \in E4Paths |-> IF q = p \/ Below(p, q) THEN NoEntry ELSE @[q]],
              !.neg = {q \in @ : q # p /\ ~Below(p, q)}]

Uncached(v, D, I) ==
    [v EXCEPT !.dirc = [i \in Inos |-> IF i \in D THEN NoEntry ELSE @[i]],
              !.metac = [i \in Inos |-> IF i \in D \cup I THEN NoEntry ELSE @[i]]]

(* invalidate_metadata_ino of the node, invalidate_namespace_entry.        *)
InvalidateEntry(v, d, i, p) == InvalidatePathCache(Uncached(v, {d}, {i}), p)

(* mkdir, create and symlink: the same shape with a new inode.             *)
AddNode(v, p, new) ==
    LET a == Looked(v, Parent(p))   d == Found(v, Parent(p))
        b == Looked(a, p)
    IN IF ~IsDir(d) THEN a
       ELSE IF Found(a, p) # NoEntry \/ LowestFree(v) = {} THEN b
       ELSE LET i == CHOOSE j \in LowestFree(v) : TRUE
            IN InvalidateEntry([b EXCEPT !.inode[i] = new, !.dirs[i] = EmptyDir,
                                         !.dirs[d.ino][Leaf(p)] = i,
                                         !.inode[d.ino].links = IF new.kind = "dir" THEN @ + 1
                                                                ELSE @], d.ino, i, p)

NewNode(kind, mode, to) == [used |-> TRUE, kind |-> kind, links |-> IF kind = "dir" THEN 2 ELSE 1,
                            mode |-> mode, to |-> to]

(* resolve_symlinks_locked: every prefix is looked up, a link starts over. *)
RECURSIVE Resolve(_, _, _, _)
Resolve(v, done, rest, hops) ==
    LET c == Append(done, Head(rest))
        w == Looked(v, c)   f == Found(v, c)
    IN IF rest = <<>> THEN [vol |-> v, path |-> done]
       ELSE IF c \notin E4Paths THEN [vol |-> v, path |-> NoEntry]
       ELSE IF f = NoEntry THEN [vol |-> w, path |-> NoEntry]
       ELSE IF f.kind = "lnk"
              THEN IF hops = MaxHops THEN [vol |-> w, path |-> NoEntry]
                   ELSE Resolve(w, <<>>, v.inode[f.ino].to \o Tail(rest), hops + 1)
       ELSE IF Len(rest) > 1 /\ f.kind # "dir" THEN [vol |-> w, path |-> NoEntry]
       ELSE Resolve(w, c, Tail(rest), hops)

(* link_ext4; old has been through resolve_symlinks when links are followed. *)
LinkNode(v, old, new) ==
    LET a == Looked(v, Parent(new))   d == Found(v, Parent(new))
        b == Looked(a, new)
        c == Looked(b, old)           f == Found(b, old)
    IN IF ~IsDir(d) THEN a
       ELSE IF Found(a, new) # NoEntry THEN b
       ELSE IF f = NoEntry \/ IsDir(f) THEN c
       ELSE InvalidateEntry([c EXCEPT !.dirs[d.ino][Leaf(new)] = f.ino,
                                      !.inode[f.ino].links = @ + 1], d.ino, f.ino, new)

LinkResolved(r, new) == IF r.path = NoEntry THEN r.vol ELSE LinkNode(r.vol, r.path, new)

(* remove_empty_dir_ext4_locked. *)
RemoveEmptyDir(v, p) ==
    LET a == Looked(v, Parent(p))   d == Found(v, Parent(p))
        b == Looked(a, p)           f == Found(a, p)
        c == Publish(b, {f.ino})
    IN IF ~IsDir(d) THEN a
       ELSE IF ~IsDir(f) THEN b
       ELSE IF Listing(b, f.ino) # EmptyDir THEN c
       ELSE InvalidateEntry([c EXCEPT !.dirs[d.ino][Leaf(p)] = NoIno, !.dirs[f.ino] = EmptyDir,
                                      !.inode[f.ino] = Freed(@),
                                      !.inode[d.ino].links = @ - 1], d.ino, f.ino, p)

(* The end of rename_ext4_locked, and invalidate_namespace_rename.         *)
Relinked(v, do, dn) == [v EXCEPT !.inode[do].links = @ - 1, !.inode[dn].links = @ + 1]
Entries(v, f, do, dn, old, new) ==
    [[v EXCEPT !.dirs[dn][Leaf(new)] = f.ino] EXCEPT !.dirs[do][Leaf(old)] = NoIno]
MoveEntry(v, f, do, dn, old, new) ==
    LET linked == IF f.kind # "dir" \/ do = dn THEN Entries(v, f, do, dn, old, new)
                  ELSE Relinked(Entries(v, f, do, dn, old, new), do, dn)
    IN InvalidatePathCache(InvalidatePathCache(Uncached(linked, {do, dn}, {f.ino}), old), new)
Move(v, old, new) ==
    MoveEntry(v, Found(v, old), Found(v, Parent(old)).ino, Found(v, Parent(new)).ino, old, new)

(* The lookups of a rename: both parents, the old name, the new name.      *)
RenameLooks(v, old, new) ==
    LET a == Looked(v, Parent(old))   b == Looked(a, Parent(new))   c == Looked(b, old)
    IN IF old = new \/ <<>> \in {old, new} THEN v
       ELSE IF Found(v, Parent(old)) = NoEntry THEN a
       ELSE IF ~IsDir(Found(v, Parent(old))) \/ ~IsDir(Found(a, Parent(new))) THEN b
       ELSE IF Found(b, old) = NoEntry \/ (IsDir(Found(b, old)) /\ Below(old, new)) THEN c
       ELSE Looked(c, new)

MayMove_IntoItself(v, old, new) ==
    /\ old # new /\ old # <<>> /\ new # <<>>
    /\ IsDir(Found(v, Parent(old))) /\ IsDir(Found(v, Parent(new)))
    /\ Found(v, old) # NoEntry

MayMove(v, old, new) ==
    /\ old # new /\ old # <<>> /\ new # <<>>
    /\ IsDir(Found(v, Parent(old))) /\ IsDir(Found(v, Parent(new)))
    /\ Found(v, old) # NoEntry
    /\ ~(IsDir(Found(v, old)) /\ Below(old, new))

(* rename_ext4_locked(old, new, no_replace = true). *)
MovedIf(may, w, old, new) == IF may THEN Move(w, old, new) ELSE w
Renamed(v, old, new) ==
    MovedIf(MayMove(v, old, new) /\ Found(v, new) = NoEntry, RenameLooks(v, old, new), old, new)

(* exchange_ext4: three renames through a temporary name; a failed second  *)
(* one is undone.                                                          *)
Temporary(p) == Append(Parent(p), Temp)
LastRename(v, old, new) ==
    Renamed(v, Temporary(old), IF Found(v, old) = NoEntry THEN old ELSE new)
ThreeRenames(v, old, new) ==
    LastRename(Renamed(Renamed(v, old, Temporary(old)), new, old), old, new)
MayExchange(f, g, old, new) ==
    /\ g # NoEntry
    /\ ~(IsDir(f) /\ Below(old, new)) /\ ~(IsDir(g) /\ Below(new, old))
ExchangedIf(may, v, old, new) ==
    IF may THEN ThreeRenames(Looked(v, Temporary(old)), old, new) ELSE v
Exchanged(v, old, new) ==
    IF old = new \/ <<>> \in {old, new} THEN v
    ELSE IF Found(v, old) = NoEntry THEN Looked(v, old)
    ELSE ExchangedIf(MayExchange(Found(v, old), Found(v, new), old, new),
                     Looked(Looked(v, old), new), old, new)

----------------------------------------------------------------------------
(* The calls.                                                              *)

Writing == {t \in E4Threads : e4[t].pc \in {"unlink", "move"}}
Reading == {t \in E4Threads : e4[t].pc = "publish"}
Shared == Writing = {}
Exclusive == Writing = {} /\ Reading = {}

Set(t, r) == e4' = [e4 EXCEPT ![t] = r]
Rest == UNCHANGED <<refs, pend>>
Begin(t, c, p, q) == [E4Idle EXCEPT !.call = c, !.p = p, !.q = q]

(* A lookup: read the caches and the disk, then publish what was read.     *)
LookupCall(t, p) ==
    /\ e4[t].pc = "idle" /\ Shared
    /\ vol.path[p] = NoEntry /\ p \notin vol.neg
    /\ Set(t, [Begin(t, "lookup", p, p) EXCEPT !.pc = "publish",
                  !.got = [found |-> Found(vol, p),
                           lists |-> [i \in Listed(vol, p) |-> Listing(vol, i)]]])
    /\ Rest /\ UNCHANGED vol

Published(v, p, got) ==
    Remember([v EXCEPT !.dirc = [i \in Inos |-> IF i \in DOMAIN got.lists THEN got.lists[i] ELSE @[i]]],
             p, got.found)

LookupPublish(t) ==
    /\ e4[t].pc = "publish"
    /\ vol' = Published(vol, e4[t].p, e4[t].got)
    /\ Set(t, E4Idle) /\ Rest

(* ext4_list_dir, resolve_symlinks and readlink_ext4: reads whose          *)
(* publications all happen under the shared transaction.                   *)
ReadCall(t, c, p) ==
    /\ e4[t].pc = "idle" /\ Shared
    /\ vol' = CASE c = "list"    -> IF IsDir(Found(vol, p))
                                     THEN Publish(Looked(vol, p), {Found(vol, p).ino})
                                     ELSE Looked(vol, p)
                 [] c = "resolve" -> Resolve(vol, <<>>, p, 0).vol
    /\ Rest /\ UNCHANGED e4

(* Mutations that are one step under the exclusive transaction.  creat     *)
(* goes on to take its open reference after the transaction.               *)
MutateCall(t, c, p, q, m) ==
    /\ e4[t].pc = "idle" /\ Exclusive /\ p # <<>>
    /\ vol' = CASE c = "creat"    -> AddNode(vol, p, NewNode("reg", m, <<>>))
                [] c = "mkdir"    -> AddNode(vol, p, NewNode("dir", m, <<>>))
                [] c = "symlink"  -> AddNode(vol, p, NewNode("lnk", m, q))
                [] c = "link"     -> LinkNode(vol, q, p)
                [] c = "linkf"    -> LinkResolved(Resolve(vol, <<>>, q, 0), p)
                [] c = "rmdir"    -> RemoveEmptyDir(vol, p)
                [] c = "exchange" -> Exchanged(vol, p, q)
    /\ LET new == {i \in Inos : ~vol.inode[i].used /\ vol'.inode[i].used}
       IN IF c = "creat" /\ new # {}
            THEN Set(t, [Begin(t, c, p, q) EXCEPT !.pc = "open", !.ino = CHOOSE i \in new : TRUE])
            ELSE UNCHANGED e4
    /\ Rest

(* unlink_non_dir_locked up to EXT4_MUTATION_LOCK: the inodes are copied   *)
(* and the fate of the inode is decided.                                   *)
Decide(t, c, v, p) ==
    \E a \in {Looked(v, Parent(p))}, d \in {Found(v, Parent(p))} :
    \E b \in {Looked(a, p)}, f \in {Found(a, p)} :
       IF ~IsDir(d) THEN vol' = a /\ Set(t, E4Idle)
       ELSE IF f = NoEntry \/ IsDir(f) THEN vol' = b /\ Set(t, E4Idle)
       ELSE /\ vol' = b
            /\ Set(t, [c EXCEPT !.pc = "unlink", !.dir = d.ino, !.ino = f.ino,
                          !.copy = v.inode[f.ino], !.dcopy = v.inode[d.ino],
                          !.delay = v.inode[f.ino].links <= 1 /\ refs[f.ino] > 0])

UnlinkCall(t, p) ==
    /\ e4[t].pc = "idle" /\ Exclusive /\ p # <<>>
    /\ Decide(t, Begin(t, "unlink", p, p), vol, p) /\ Rest

(* rename_ext4: a replaced directory is removed at once, a replaced file   *)
(* goes through unlink_non_dir_locked first.                               *)
RenameCall(t, old, new) ==
    LET me == [Begin(t, "rename", new, old) EXCEPT !.pc = "move"] IN
    /\ e4[t].pc = "idle" /\ Exclusive /\ Rest
    /\ \E w \in {RenameLooks(vol, old, new)}, f \in {Found(vol, old)}, g \in {Found(vol, new)} :
          IF ~MayMove(vol, old, new) \/ (g # NoEntry /\ g.ino = f.ino)
                \/ (g # NoEntry /\ IsDir(g) # IsDir(f))
                \/ (g # NoEntry /\ IsDir(g) /\ Listing(w, g.ino) # EmptyDir)
            THEN vol' = (IF MayMove(vol, old, new) /\ g # NoEntry /\ IsDir(g) /\ IsDir(f)
                            /\ g.ino # f.ino
                         THEN Publish(w, {g.ino}) ELSE w) /\ UNCHANGED e4
          ELSE IF g = NoEntry THEN vol' = Move(w, old, new) /\ UNCHANGED e4
          ELSE IF IsDir(g) THEN vol' = RemoveEmptyDir(w, new) /\ Set(t, me)
          ELSE Decide(t, me, w, new)

RenameMove(t) ==
    /\ e4[t].pc = "move"
    /\ vol' = Move(vol, e4[t].q, e4[t].p)
    /\ Set(t, E4Idle) /\ Rest

(* The rest of unlink_non_dir_locked, under EXT4_MUTATION_LOCK.            *)
UnlinkCommit(t) ==
    LET c == e4[t]
        child == IF c.copy.links > 1 \/ c.delay
                 THEN [c.copy EXCEPT !.links = IF @ > 0 THEN @ - 1 ELSE 0] ELSE Freed(c.copy)
    IN /\ c.pc = "unlink"
       /\ vol' = InvalidateEntry([vol EXCEPT !.dirs[c.dir][Leaf(c.p)] = NoIno,
                                             !.inode[c.dir] = c.dcopy,
                                             !.inode[c.ino] = child], c.dir, c.ino, c.p)
       /\ pend' = IF c.delay THEN pend \cup {c.ino} ELSE pend
       /\ Set(t, IF c.call = "rename" THEN [c EXCEPT !.pc = "move"] ELSE E4Idle)
       /\ UNCHANGED refs

(* stat, chmod and open by path: the inode number is looked up under the   *)
(* shared transaction and used after it.                                   *)
PathCall(t, c, p, m) ==
    LET f == Found(vol, p)
    IN /\ e4[t].pc = "idle" /\ Shared
       /\ vol' = Looked(vol, p) /\ Rest
       /\ IF f = NoEntry \/ (c = "open" /\ f.kind # "reg") THEN UNCHANGED e4
          ELSE Set(t, [Begin(t, c, p, p) EXCEPT !.ino = f.ino, !.copy.mode = m,
                         !.pc = IF c = "chmod" THEN "chmod" ELSE "meta"])

(* metadata_for_ino reads the inode and publishes it with no lock held.    *)
MetaRead(t) ==
    LET i == e4[t].ino
        next == IF e4[t].call = "open" THEN "open" ELSE "idle"
    IN /\ e4[t].pc = "meta"
       /\ IF vol.metac[i] # NoEntry
            THEN Set(t, IF next = "open" THEN [e4[t] EXCEPT !.pc = next] ELSE E4Idle)
            ELSE Set(t, [e4[t] EXCEPT !.pc = "keep", !.copy = vol.inode[i]])
       /\ Rest /\ UNCHANGED vol

MetaPublish(t) ==
    /\ e4[t].pc = "keep"
    /\ vol' = [vol EXCEPT !.metac[e4[t].ino] = e4[t].copy]
    /\ Set(t, IF e4[t].call = "open" THEN [e4[t] EXCEPT !.pc = "open"] ELSE E4Idle)
    /\ Rest

(* set_mode_ino. *)
Chmod(t) ==
    LET i == e4[t].ino
    IN /\ e4[t].pc = "chmod"
       /\ vol' = Uncached([vol EXCEPT !.inode[i].mode = e4[t].copy.mode], {}, {i})
       /\ Set(t, E4Idle) /\ Rest

(* open_regular_ino. *)
OpenRef(t) ==
    /\ e4[t].pc = "open"
    /\ refs[e4[t].ino] < MaxRefs
    /\ refs' = [refs EXCEPT ![e4[t].ino] = @ + 1]
    /\ Set(t, E4Idle) /\ UNCHANGED <<vol, pend>>

(* close_regular_ino: the count first, then the delayed unlink.            *)
CloseCall(t, i) ==
    /\ e4[t].pc = "idle" /\ refs[i] > 0
    /\ refs' = [refs EXCEPT ![i] = @ - 1]
    /\ IF refs[i] > 1 THEN UNCHANGED e4
       ELSE Set(t, [Begin(t, "close", <<>>, <<>>) EXCEPT !.pc = "last", !.ino = i])
    /\ UNCHANGED <<vol, pend>>

LastClose(t) ==
    LET i == e4[t].ino
    IN /\ e4[t].pc = "last"
       /\ pend' = pend \ {i}
       /\ vol' = IF i \in pend THEN Uncached([vol EXCEPT !.inode[i] = Freed(@)], {}, {i}) ELSE vol
       /\ Set(t, E4Idle) /\ UNCHANGED refs

----------------------------------------------------------------------------
E4Step(t) ==
    \/ LookupPublish(t)
    \/ UnlinkCommit(t)
    \/ RenameMove(t)
    \/ MetaRead(t)
    \/ MetaPublish(t)
    \/ Chmod(t)
    \/ OpenRef(t)
    \/ LastClose(t)

----------------------------------------------------------------------------
(* Properties.                                                             *)

Entry == [ino : Inos, kind : {"none", "reg", "dir", "lnk"}]
InodeType == [used : BOOLEAN, kind : {"none", "reg", "dir", "lnk"}, links : Nat, mode : Modes \cup {0}, to : Seq(Names)]

(* Type invariant; NAMESPACE_LOCK is never held by a writer and anyone     *)
(* else (ext4_vol.rs, namespace_write_lock!).                              *)
E4TypeOK ==
    /\ vol.inode \in [Inos -> InodeType]
    /\ vol.dirs \in [Inos -> [Names -> Inos \cup {NoIno}]]
    /\ vol.path \in [E4Paths -> Entry \cup {NoEntry}] /\ vol.neg \subseteq E4Paths
    /\ \A i \in Inos : vol.dirc[i] = NoEntry \/ vol.dirc[i] \in [Names -> Inos \cup {NoIno}]
    /\ \A i \in Inos : vol.metac[i] = NoEntry \/ vol.metac[i] \in InodeType
    /\ refs \in [Inos -> 0 .. MaxRefs] /\ pend \subseteq Inos
    /\ Cardinality(Writing) <= 1 /\ (Writing = {} \/ Reading = {})

UsedDir(i) == vol.inode[i].used /\ vol.inode[i].kind = "dir"

DiskIno(p) ==
    LET at[n \in 0 .. Len(p)] ==
          IF n = 0 THEN RootIno
          ELSE IF at[n - 1] = NoIno \/ ~UsedDir(at[n - 1]) THEN NoIno
          ELSE vol.dirs[at[n - 1]][p[n]]
    IN at[Len(p)]

(* resolve_existing_locked never answers from a cache what the disk would  *)
(* not: every positive and negative path entry and every cached directory  *)
(* listing agrees with the tree, across renames of whole subtrees and      *)
(* reuse of inode numbers ("reader only publishes results in the same      *)
(* shared transaction", docs/kernel-architecture-overview-cn.md:251).      *)
PathCacheExact ==
    /\ \A p \in E4Paths : vol.path[p] # NoEntry => DiskIno(p) = vol.path[p].ino
    /\ \A p \in vol.neg : DiskIno(p) = NoIno
    /\ \A i \in Inos : UsedDir(i) /\ vol.dirc[i] # NoEntry => vol.dirc[i] = vol.dirs[i]

Holders(i) == {<<d, n>> \in Inos \X Names : UsedDir(d) /\ vol.dirs[d][n] = i}
Subdirs(i) == {n \in Names : vol.dirs[i][n] # NoIno /\ vol.inode[vol.dirs[i][n]].kind = "dir"}

(* The link count on disk counts the names of the inode, so unlink_non_dir *)
(* frees an inode exactly when its last name goes; a directory counts      *)
(* itself, its entry and its subdirectories.                               *)
LinksExact ==
    \A i \in Inos :
        /\ vol.inode[i].used /\ vol.inode[i].kind \in {"reg", "lnk"} => vol.inode[i].links = Cardinality(Holders(i))
        /\ UsedDir(i) => vol.inode[i].links = 2 + Cardinality(Subdirs(i))

Reached ==
    LET r[n \in 0 .. Cardinality(Inos)] ==
          IF n = 0 THEN {RootIno}
          ELSE LET s == r[n - 1]
               IN s \cup {i \in Inos : \E h \in Holders(i) : h[1] \in s}
    IN r[Cardinality(Inos)]

(* The directories form one tree: every entry names an allocated inode,    *)
(* every directory but the root has exactly one entry and is reached from  *)
(* the root (rename_ext4 and exchange_ext4 refuse to move a directory      *)
(* below itself).                                                          *)
TreeIsWhole ==
    /\ \A i \in Inos : Holders(i) # {} => vol.inode[i].used
    /\ \A i \in Inos \ {RootIno} : UsedDir(i) => Cardinality(Holders(i)) = 1
    /\ {i \in Inos : UsedDir(i)} \subseteq Reached

(* Together: the directories are a tree and the link counts count it.      *)
TreeSafe == E4TypeOK /\ LinksExact /\ TreeIsWhole

=============================================================================
