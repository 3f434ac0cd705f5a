------------------------------ MODULE Namespace ------------------------------
(***************************************************************************)
(* The path layer of os/src/fs/vfs.rs: one tree shown to programs, made of *)
(* MemFs laid over an ext4 volume, with a set of whiteouts that hide names *)
(* removed from MemFs, a mount table (tmpfs mounts and read-only remounts) *)
(* and four caches of path resolution that each mutation must invalidate.  *)
(*                                                                         *)
(* A mutating call runs in three steps: it invalidates the caches          *)
(* (NamespaceCacheGuard::path) and tests the path, then changes MemFs and  *)
(* the whiteouts under the MEM_FS lock or calls ext4, then invalidates     *)
(* again when the guard is dropped.  Calls that resolve a path walk it     *)
(* component by component, publishing each probe in a step of its own,     *)
(* since the caches have locks apart from MEM_FS.  The ext4 volume is a    *)
(* tree of kinds; its own locking is the subject of module Ext4Names.      *)
(* Permissions, ext4 alias mounts, vfat and the pseudo files are left out. *)
(***************************************************************************)
EXTENDS MemFs

CONSTANTS NsThreads,   \* threads in path system calls
          Volatile,    \* top-level names always served by MemFs (/tmp ...)
          Targets,     \* texts of symbolic links: [rel, names]
          MaxFollow,   \* links followed in one walk (40 in the code)
          Unset,       \* no cache entry
          NotLink, Missing   \* cached errors of readlink: EINVAL, ENOENT

VARIABLES mem,      \* MEM_FS
          ext,      \* the ext4 tree: [Paths -> [kind, to]]
          white,    \* WHITEOUTS
          mounts,   \* MOUNT_TABLE: set of [at, tmpfs, ro]
          cache,    \* the four resolution caches
          op,       \* what each thread is doing
          solo      \* history: no two calls have overlapped so far
nsVars == <<mem, ext, white, mounts, cache, op, solo>>

NoCall == [name |-> "none", old |-> Root, new |-> Root, to |-> NoPath, flag |-> FALSE]
NsIdle == [pc |-> "idle", call |-> NoCall, path |-> Root, at |-> Root, rest |-> Root,
           hops |-> 0, follow |-> FALSE, val |-> NoPath]
NoNode == [kind |-> "none", to |-> NoPath]

----------------------------------------------------------------------------
(* What a path names.                                                      *)

PathIsUnder(p, d) == p = d \/ IsDescendant(d, p)
IsTmpfsPath(p) == \/ p # Root /\ p[1] \in Volatile
                  \/ \E e \in mounts : e.tmpfs /\ PathIsUnder(p, e.at)
IsReadonly(p) ==
    \E e \in mounts : /\ e.ro /\ PathIsUnder(p, e.at)
                      /\ \A f \in mounts : PathIsUnder(p, f.at) => Len(f.at) <= Len(e.at)
IsMountpoint(p) == p # Root /\ \E e \in mounts : e.at = p

MemLeaf(p) == p \in mem.names \cup mem.specs \/ mem.links[p] # NoPath
ExtLeaf(p) == ext[p].kind \in {"file", "link"}
ExtDir(p) == ext[p].kind = "dir"

FileExists(p) == p \notin white /\ (MemLeaf(p) \/ (~IsTmpfsPath(p) /\ ExtLeaf(p)))
DirExists(p) == p \notin white /\ (p \in mem.dirs \/ (~IsTmpfsPath(p) /\ ExtDir(p)))

(* metadata(path, false): MemFs before ext4, nothing under a whiteout.     *)
Kind(p) ==
    IF p \in white THEN "none"
    ELSE IF MemKind(mem, p) # "none" THEN MemKind(mem, p)
    ELSE IF IsTmpfsPath(p) THEN "none" ELSE ext[p].kind

(* What lookup_symlink_target finds when nothing is cached.                *)
LinkAt(p) == IF mem.links[p] # NoPath THEN mem.links[p]
             ELSE IF IsTmpfsPath(p) THEN NoPath ELSE ext[p].to

SymlinkTargetPath(p, target) ==
    IF target.rel THEN ParentPath(p) \o target.names ELSE target.names

(* is_memfs_overlay_create_dir or no ext4 directory: MemFs takes the node. *)
ExtTakes(parent) == ~IsTmpfsPath(parent) /\ ExtDir(parent)
MemTakes(parent) == parent \in mem.dirs /\ ~ExtTakes(parent)

----------------------------------------------------------------------------
(* The caches.                                                             *)

EmptyCaches == [probe  |-> [p \in Paths |-> Unset], rlink |-> [p \in Paths |-> Unset],
                dirs   |-> {},                      parent |-> [p \in Paths |-> Unset]]

(* invalidate_symlink_probe for a set of paths. *)
Forget(c, gone) ==
    LET drop(f) == [p \in Paths |-> IF p \in gone THEN Unset ELSE f[p]]
    IN [probe |-> drop(c.probe), rlink |-> drop(c.rlink), dirs |-> c.dirs \ gone,
        parent |-> drop(c.parent)]

TreeOf(p) == {q \in Paths : PathIsUnder(q, p)}

Guarded_OldOnly(c) ==
    CASE c.name \in {"rename", "exchange", "rmdir"} -> TreeOf(c.old)
      [] c.name = "open"                         -> {}
      [] c.name \in {"mount", "umount", "remount"} -> Paths
      [] OTHER                                   -> {c.old}

(* The paths the guards of a call cover; open(O_CREAT) takes no guard.     *)
Guarded(c) ==
    CASE c.name = "rmdir"                  -> TreeOf(c.old)
      [] c.name \in {"rename", "exchange"} -> TreeOf(c.old) \cup TreeOf(c.new)
      [] c.name = "link"                   -> {c.new}
      [] c.name = "open"                   -> {}
      [] c.name \in {"mount", "umount", "remount"} -> Paths
      [] OTHER                             -> {c.old}

----------------------------------------------------------------------------
(* Mutating calls: the tests made before anything is changed ...           *)

Absent(p) == ~FileExists(p) /\ ~DirExists(p)
CanCreate(p) == Absent(p) /\ p # Root /\ ~IsReadonly(p)

(* open_path gets as far as its O_CREAT branch: no file, special node or   *)
(* directory was found.  O_EXCL changes only the answer.                   *)
OpenCreates(p) ==
    /\ p # Root /\ ~IsReadonly(p) /\ ~MemLeaf(p) /\ p \notin mem.dirs
    /\ IsTmpfsPath(p) \/ (~ExtDir(p) /\ (p \in white \/ ~ExtLeaf(p)))

NsChecks(c) ==
    CASE c.name = "unlink"   -> /\ Kind(c.old) \notin {"none", "dir"} /\ ~IsReadonly(c.old)
                                /\ ~mem.meta[c.old].fixed
      [] c.name = "rmdir"    -> /\ Kind(c.old) = "dir" /\ ~IsReadonly(c.old)
                                /\ c.old # Root /\ ~IsMountpoint(c.old)
      [] c.name = "rename"   -> /\ c.old \notin white /\ (c.flag => Absent(c.new))
                                /\ ~IsReadonly(c.old) /\ ~IsReadonly(c.new)
                                /\ IsTmpfsPath(c.old) <=> IsTmpfsPath(c.new)
      [] c.name = "exchange" -> /\ c.old # c.new /\ Kind(c.old) # "none" /\ Kind(c.new) # "none"
                                /\ ~IsReadonly(c.old) /\ ~IsReadonly(c.new)
                                /\ IsTmpfsPath(c.old) <=> IsTmpfsPath(c.new)
      [] c.name = "link"     -> /\ c.old \notin white /\ CanCreate(c.new)
                                /\ IsTmpfsPath(c.old) <=> IsTmpfsPath(c.new)
      [] c.name \in {"symlink", "mkdir", "creat", "mknod"} -> CanCreate(c.old)
      [] c.name = "open"     -> OpenCreates(c.old)
      [] c.name = "mount"    -> Kind(c.old) = "dir"
      [] OTHER               -> TRUE

(* mkdir, mknod of a regular or special file lift the whiteout first.      *)
ClearsEarly(c) == IF c.name \in {"mkdir", "creat", "mknod"} THEN {c.old} ELSE {}

(* ... and the change itself, tested again under the lock.                 *)
NsSame == UNCHANGED <<mem, ext, white, mounts>>
InMem(m, w) == mem' = m /\ white' = w /\ UNCHANGED <<ext, mounts>>
InExt(e, w) == ext' = e /\ white' = w /\ UNCHANGED <<mem, mounts>>

DoUnlink(p) ==
    CASE p \in mem.dirs -> NsSame
      [] p \notin mem.dirs /\ MemLeaf(p) -> InMem(RemoveFile(mem, p), white \cup {p})
      [] OTHER -> IF ~IsTmpfsPath(p) /\ ExtLeaf(p)
                  THEN InExt([ext EXCEPT ![p] = NoNode], white) ELSE NsSame

(* list_dir merges both trees; only an ext4-only directory is tested.      *)
ListDirEmpty(p) ==
    \A q \in Paths : q # p /\ ParentPath(q) = p =>
        ~Exists(mem, q) /\ (q \in white \/ ext[q].kind = "none")

DoRmdir(p) ==
    CASE MemLeaf(p) -> NsSame
      [] ~MemLeaf(p) /\ p \in mem.dirs ->
            IF CanRemoveDir(mem, p) THEN InMem(RemoveDir(mem, p), white \cup {p}) ELSE NsSame
      [] OTHER ->
            IF /\ ~IsTmpfsPath(p) /\ ExtDir(p) /\ ListDirEmpty(p)
               /\ \A q \in Paths : IsDescendant(p, q) => ext[q].kind = "none"
            THEN InExt([ext EXCEPT ![p] = NoNode], white) ELSE NsSame

(* rename_ext4 moves a subtree and may replace a leaf or an empty dir.     *)
ExtRename(old, new) ==
    [p \in Paths |->
        IF PathIsUnder(p, new) /\ Rebase(p, new, old) \in Paths
        THEN ext[Rebase(p, new, old)]
        ELSE IF PathIsUnder(p, old) THEN NoNode ELSE ext[p]]
ExtCanRename(old, new, noReplace) ==
    /\ old # new /\ new # Root /\ ext[old].kind # "none" /\ ~IsDescendant(old, new)
    /\ ExtDir(ParentPath(new)) /\ (noReplace => ext[new].kind = "none")
    /\ ext[new].kind # "none" => (ExtDir(old) <=> ExtDir(new))
    /\ \A q \in Paths : IsDescendant(new, q) => ext[q].kind = "none"

(* The MemFs branch: the old name is whited out, the new one uncovered.    *)
MemRenameWhite(old, new) == (white \ {new}) \cup {old}
DoRename(old, new, noReplace) ==
    IF Exists(mem, old)
    THEN IF /\ noReplace \/ IsTmpfsPath(new) \/ ext[new].kind = "none"
            /\ Kind(old) # "none" /\ (Exists(mem, new) => Kind(new) # "none")
            /\ CanRename(mem, old, new) /\ StaysInPaths(mem, old, new)
         THEN InMem(Rename(mem, old, new), MemRenameWhite(old, new)) ELSE NsSame
    ELSE IF /\ ~IsTmpfsPath(old) /\ ~Exists(mem, new) /\ ExtCanRename(old, new, noReplace)
            /\ \A p \in Paths : IsDescendant(old, p) /\ ext[p].kind # "none"
                                   => Rebase(p, old, new) \in Paths
         THEN InExt(ExtRename(old, new), white \ {new}) ELSE NsSame

DoExchange(old, new) ==
    CASE Exists(mem, old) /\ Exists(mem, new) ->
            IF CanExchange(mem, old, new) /\ ExchangeStays(mem, old, new)
            THEN InMem(Exchange(mem, old, new), white \ {old, new}) ELSE NsSame
      [] Exists(mem, old) # Exists(mem, new) -> NsSame
      [] OTHER -> IF /\ ~IsTmpfsPath(old) /\ ExtLeaf(old) /\ ExtLeaf(new)
                  THEN InExt([ext EXCEPT ![old] = ext[new], ![new] = ext[old]], white \ {old, new})
                  ELSE NsSame

DoLink(old, new) ==
    IF Exists(mem, old)
    THEN IF MemTakes(ParentPath(new)) /\ CanLink(mem, old, new)
         THEN InMem(Link(mem, old, new), white \ {new}) ELSE NsSame
    ELSE IF ~IsTmpfsPath(old) /\ ExtLeaf(old) /\ ExtTakes(ParentPath(new)) /\ ext[new].kind = "none"
         THEN InExt([ext EXCEPT ![new] = ext[old]], white \ {new}) ELSE NsSame

ExtCreate(p, node, w) ==
    IF ext[p].kind = "none" THEN InExt([ext EXCEPT ![p] = node], w)
    ELSE white' = w /\ UNCHANGED <<mem, ext, mounts>>

(* A symbolic link on ext4 lifts the whiteout even when ext4 then refuses. *)
DoSymlink(p, target) ==
    LET d == ParentPath(p)
    IN IF MemTakes(d)
       THEN IF CanAddNode(mem, p) THEN InMem(AddSymlink(mem, p, target), white \ {p}) ELSE NsSame
       ELSE IF ExtTakes(d) THEN ExtCreate(p, [kind |-> "link", to |-> target], white \ {p})
       ELSE NsSame

DoMkdir(p) ==
    LET d == ParentPath(p)
    IN CASE MemTakes(d) -> InMem(AddDirWithMode(mem, p, 1), white)
         [] ~MemTakes(d) /\ ExtTakes(d) -> ExtCreate(p, [kind |-> "dir", to |-> NoPath], white)
         [] OTHER -> NsSame

(* create_regular_file and the O_CREAT branch of open_path: add_file       *)
(* replaces whatever file is there by then.                                *)
DoCreate(p, w) ==
    LET d == ParentPath(p)
    IN CASE MemTakes(d) -> InMem(AddFileWithMode(mem, p, 1), w)
         [] ~MemTakes(d) /\ ExtTakes(d) ->
              IF ext[p].kind = "none"
              THEN InExt([ext EXCEPT ![p] = [kind |-> "file", to |-> NoPath]], w) ELSE NsSame
         [] OTHER -> NsSame

DoOpen(p) == DoCreate(p, white \ {p})

(* A special node on an ext4 directory lives in MemFs, with its parents.   *)
DoMknod(p) ==
    LET d == ParentPath(p)
    IN CASE MemTakes(d) -> IF CanAddNode(mem, p) THEN InMem(AddSpecial(mem, p, 1), white) ELSE NsSame
         [] ~MemTakes(d) /\ ExtTakes(d) ->
              LET m == EnsureParentDirs(mem, p)
              IN IF CanAddNode(m, p) THEN InMem(AddSpecial(m, p, 1), white) ELSE InMem(m, white)
         [] OTHER -> NsSame

(* mount_fs makes the directory before it finds the target busy.           *)
DoMount(p, ro) ==
    /\ mem' = AddDirWithMode(mem, p, 2)
    /\ mounts' = IF \E e \in mounts : e.at = p THEN mounts
                 ELSE mounts \cup {[at |-> p, tmpfs |-> TRUE, ro |-> ro]}
    /\ UNCHANGED <<ext, white>>
DoUmount(p) ==
    /\ mounts' = {e \in mounts : e.at # p \/ p = Root}
    /\ UNCHANGED <<mem, ext, white>>
DoRemount(p, ro) ==
    /\ mounts' = {IF e.at = p THEN [e EXCEPT !.ro = ro] ELSE e : e \in mounts}
    /\ UNCHANGED <<mem, ext, white>>

Change(c) ==
    CASE c.name = "unlink"   -> DoUnlink(c.old)
      [] c.name = "rmdir"    -> DoRmdir(c.old)
      [] c.name = "rename"   -> DoRename(c.old, c.new, c.flag)
      [] c.name = "exchange" -> DoExchange(c.old, c.new)
      [] c.name = "link"     -> DoLink(c.old, c.new)
      [] c.name = "symlink"  -> DoSymlink(c.old, c.to)
      [] c.name = "mkdir"    -> DoMkdir(c.old)
      [] c.name = "creat"    -> DoCreate(c.old, white)
      [] c.name = "open"     -> DoOpen(c.old)
      [] c.name = "mknod"    -> DoMknod(c.old)
      [] c.name = "mount"    -> DoMount(c.old, c.flag)
      [] c.name = "umount"   -> DoUmount(c.old)
      [] c.name = "remount"  -> DoRemount(c.old, c.flag)

----------------------------------------------------------------------------
(* The steps of a call.                                                    *)

Goto(t, r) == op' = [op EXCEPT ![t] = r]
Alone(t) == solo' = (solo /\ \A u \in NsThreads \ {t} : op[u].pc = "idle")

(* rmdir guards the path it was given, then resolves it; mkdir, open,      *)
(* stat and readlink resolve first; open skips that under a whiteout.      *)
Resolving == {"rmdir", "mkdir", "open", "stat", "readlink"}
StartAt(c) == IF c.name \in Resolving /\ ~(c.name = "open" /\ c.old \in white)
              THEN "resolve" ELSE "check"

NsCall(t, c) ==
    /\ op[t].pc = "idle"
    /\ Goto(t, [NsIdle EXCEPT !.call = c, !.path = c.old, !.pc = StartAt(c)])
    /\ cache' = IF c.name = "rmdir" THEN Forget(cache, Guarded(c)) ELSE cache
    /\ Alone(t)
    /\ UNCHANGED <<mem, ext, white, mounts>>

(* rmdir's guard is already held when its walk fails.                      *)
NsReturn(t) == Goto(t, IF op[t].call.name = "rmdir" THEN [op[t] EXCEPT !.pc = "drop"] ELSE NsIdle)

(* Where a call goes once its parent is resolved to q: open and stat go on *)
(* to follow the last component.                                           *)
Resolved(o, q) == [o EXCEPT !.call.old = q,
                            !.pc = IF o.call.name \in {"open", "stat"} THEN "final" ELSE "check"]

(* resolve_parent_symlinks_for_lookup. *)
ResolvePath(t) ==
    LET p == op[t].path
    IN /\ op[t].pc = "resolve"
       /\ CASE cache.parent[p] # Unset ->
                  Goto(t, Resolved(op[t], cache.parent[p])) /\ UNCHANGED cache
            [] cache.parent[p] = Unset /\ ParentPath(p) \in {Root} \cup cache.dirs ->
                  Goto(t, Resolved(op[t], p)) /\ cache' = [cache EXCEPT !.parent[p] = p]
            [] OTHER ->
                  Goto(t, [op[t] EXCEPT !.pc = "walk", !.rest = p]) /\ UNCHANGED cache
       /\ UNCHANGED <<mem, ext, white, mounts, solo>>

(* One turn of the loop of resolve_path_symlinks: the thread's state once  *)
(* the probe of q has answered v.  A component that is not the last must   *)
(* be a directory, and is remembered as one.                               *)
AfterProbe(o, q, v) ==
    IF v # NoPath
    THEN IF o.hops = MaxFollow THEN [o EXCEPT !.pc = "fail"]
         ELSE [o EXCEPT !.pc = "walk", !.at = Root, !.hops = @ + 1,
                        !.rest = SymlinkTargetPath(q, v) \o Tail(o.rest)]
    ELSE IF Len(o.rest) = 1 \/ q \in cache.dirs \/ Kind(q) = "dir"
         THEN [o EXCEPT !.pc = "walk", !.at = q, !.rest = Tail(o.rest)]
         ELSE [o EXCEPT !.pc = "fail"]
WalkedDir(o, q, v) ==
    IF v = NoPath /\ Len(o.rest) > 1 /\ Kind(q) = "dir" THEN {q} ELSE {}

Next1(o) == Append(o.at, Head(o.rest))
WalkOver(o) == Len(o.rest) = 0 \/ (Len(o.rest) = 1 /\ ~o.follow)

Walk(t) ==
    LET o == op[t]
        q == Next1(o)
    IN /\ o.pc = "walk" /\ ~WalkOver(o)
       /\ IF q \notin Paths \/ q \in white
          THEN Goto(t, [o EXCEPT !.pc = "fail"]) /\ UNCHANGED cache
          ELSE IF cache.probe[q] # Unset
          THEN /\ Goto(t, AfterProbe(o, q, cache.probe[q]))
               /\ cache' = [cache EXCEPT !.dirs = @ \cup WalkedDir(o, q, cache.probe[q])]
          ELSE Goto(t, [o EXCEPT !.pc = "publish", !.val = LinkAt(q)]) /\ UNCHANGED cache
       /\ UNCHANGED <<mem, ext, white, mounts, solo>>

PublishProbe(t) ==
    LET o == op[t]
        q == Next1(o)
    IN /\ o.pc = "publish"
       /\ cache' = [cache EXCEPT !.probe[q] = o.val, !.dirs = @ \cup WalkedDir(o, q, o.val)]
       /\ Goto(t, AfterProbe(o, q, o.val))
       /\ UNCHANGED <<mem, ext, white, mounts, solo>>

(* The walk of the parent keeps the last component as it is and publishes  *)
(* the result; the walk that follows the last component does not.          *)
Walked(t) ==
    LET o == op[t]
        q == o.at \o o.rest
    IN /\ o.pc = "walk" /\ WalkOver(o)
       /\ CASE q \notin Paths -> NsReturn(t) /\ UNCHANGED cache
            [] q \in Paths /\ o.follow ->
                  Goto(t, [o EXCEPT !.pc = "check", !.call.old = q]) /\ UNCHANGED cache
            [] OTHER -> /\ Goto(t, Resolved([o EXCEPT !.rest = Root, !.at = Root, !.hops = 0], q))
                        /\ cache' = [cache EXCEPT !.parent[o.path] = q]
       /\ UNCHANGED <<mem, ext, white, mounts, solo>>

WalkFails(t) ==
    /\ op[t].pc = "fail" /\ NsReturn(t)
    /\ UNCHANGED <<mem, ext, white, mounts, cache, solo>>

(* resolve_final_component_symlink: probe the last component, then walk    *)
(* what it points to.                                                      *)
Follows(o, v) ==
    IF v = NoPath THEN [o EXCEPT !.pc = "check", !.val = NoPath]
    ELSE [o EXCEPT !.pc = "walk", !.follow = TRUE, !.val = NoPath,
                   !.rest = SymlinkTargetPath(o.call.old, v)]
Final(t) ==
    LET p == op[t].call.old
    IN /\ op[t].pc = "final"
       /\ Goto(t, CASE p \in white -> [op[t] EXCEPT !.pc = "fail"]
                    [] p \notin white /\ cache.probe[p] # Unset -> Follows(op[t], cache.probe[p])
                    [] OTHER -> [op[t] EXCEPT !.pc = "finalpublish", !.val = LinkAt(p)])
       /\ UNCHANGED <<mem, ext, white, mounts, cache, solo>>
FinalPublish(t) ==
    /\ op[t].pc = "finalpublish"
    /\ cache' = [cache EXCEPT !.probe[op[t].call.old] = op[t].val]
    /\ Goto(t, Follows(op[t], op[t].val))
    /\ UNCHANGED <<mem, ext, white, mounts, solo>>

(* The guard is taken, the tests are made, mkdir and mknod lift the        *)
(* whiteout.                                                               *)
Check(t) ==
    LET c == op[t].call
    IN /\ op[t].pc = "check" /\ c.name \notin {"stat", "readlink"}
       /\ cache' = IF c.name = "rmdir" THEN cache ELSE Forget(cache, Guarded(c))
       /\ IF NsChecks(c)
          THEN white' = white \ ClearsEarly(c) /\ Goto(t, [op[t] EXCEPT !.pc = "act"])
          ELSE UNCHANGED white /\ Goto(t, [op[t] EXCEPT !.pc = "drop"])
       /\ UNCHANGED <<mem, ext, mounts, solo>>

Act(t) ==
    /\ op[t].pc = "act" /\ mem.next + 3 <= MaxIno
    /\ Change(op[t].call)
    /\ Goto(t, [op[t] EXCEPT !.pc = "drop"])
    /\ UNCHANGED <<cache, solo>>

(* The guard is dropped; rmdir's covers the path it was given.             *)
Drop(t) ==
    LET c == op[t].call
    IN /\ op[t].pc = "drop"
       /\ cache' = Forget(cache, Guarded([c EXCEPT !.old = IF c.name = "rmdir" THEN op[t].path ELSE @]))
       /\ Goto(t, NsIdle)
       /\ UNCHANGED <<mem, ext, white, mounts, solo>>

Stat(t) ==
    /\ op[t].pc = "check" /\ op[t].call.name = "stat" /\ Goto(t, NsIdle)
    /\ UNCHANGED <<mem, ext, white, mounts, cache, solo>>

ReadLinkAt(p) == IF Kind(p) = "none" THEN Missing ELSE IF Kind(p) = "link" THEN LinkAt(p) ELSE NotLink
ReadLink(t) ==
    LET p == op[t].call.old
    IN /\ op[t].pc = "check" /\ op[t].call.name = "readlink"
       /\ IF p \in white \/ cache.rlink[p] # Unset
          THEN Goto(t, NsIdle)
          ELSE Goto(t, [op[t] EXCEPT !.pc = "linkread", !.val = ReadLinkAt(p)])
       /\ UNCHANGED <<mem, ext, white, mounts, cache, solo>>
ReadLinkPublish(t) ==
    /\ op[t].pc = "linkread"
    /\ cache' = [cache EXCEPT !.rlink[op[t].call.old] = op[t].val]
    /\ Goto(t, NsIdle)
    /\ UNCHANGED <<mem, ext, white, mounts, solo>>

(* Calls that change a node in one MEM_FS critical section.                *)
Touch(m) == mem' = m /\ UNCHANGED <<ext, white, mounts, cache, op, solo>>
NodeCall(t, p) ==
    /\ op[t].pc = "idle" /\ p \notin white /\ Exists(mem, p) /\ ~IsReadonly(p)
    /\ \/ \E mode \in {1, 2} : Touch(SetMode(mem, p, mode))
       \/ \E b \in BOOLEAN : Touch(SetFileFlags(mem, p, b))
       \/ \E k \in XKeys : CanSetXattr(mem, p) /\ Touch(SetXattr(mem, p, k))
       \/ \E k \in XKeys : CanRemoveXattr(mem, p, k) /\ Touch(RemoveXattr(mem, p, k))

NsStep(t) == ResolvePath(t) \/ Walk(t) \/ PublishProbe(t) \/ Walked(t) \/ WalkFails(t) \/ Check(t)
             \/ Act(t) \/ Drop(t) \/ Final(t) \/ FinalPublish(t) \/ Stat(t) \/ ReadLink(t) \/ ReadLinkPublish(t)

----------------------------------------------------------------------------
(* Properties.                                                             *)

(* The collections, the caches and the threads' records hold what their    *)
(* types say; the index of file names is the set of files, and with no     *)
(* overlapping calls every file and directory has metadata with an inode   *)
(* number already handed out.                                              *)
NsTypeOK ==
    /\ mem.names = {p \in Paths : mem.files[p] # 0}
    /\ \A p \in Paths : mem.meta[p].ino < mem.next
    /\ solo => \A p \in mem.names \cup mem.dirs : mem.meta[p].ino # 0
    /\ white \subseteq Paths \ {Root} /\ cache.dirs \subseteq Paths
    /\ \A p \in Paths : cache.probe[p] \in Targets \cup {NoPath, Unset}
                      /\ cache.rlink[p] \in Targets \cup {Unset, NotLink, Missing}
                      /\ cache.parent[p] \in Paths \cup {Unset}

(* rename_exchange parks a node under a temporary sibling, but does so     *)
(* inside one MEM_FS critical section: no thread ever finds a node under   *)
(* the temporary name, whatever other calls run in between.                *)
NoTempLeft == \A p \in Paths : TempName \in {p[i] : i \in DOMAIN p} => ~Exists(mem, p)

(* Hard links: two names share a backing exactly when they report the same *)
(* inode number, after any run of calls that do not overlap (link_path,    *)
(* rename_path, exchange_path and the open that creates).                  *)
HardLinkIdentity ==
    solo => \A p, q \in mem.names :
                mem.files[p] = mem.files[q] <=> mem.meta[p].ino = mem.meta[q].ino

(* SYMLINK_PROBE_CACHE: with no overlapping calls, a cached probe of a     *)
(* visible name is what a fresh probe would find, whichever of unlink,     *)
(* rename, exchange, symlink, mkdir, mount ... has run since.              *)
ProbeExact ==
    solo /\ (\A t \in NsThreads : op[t].pc # "drop") =>
        \A p \in Paths \ white : cache.probe[p] # Unset => cache.probe[p] = LinkAt(p)

(* A call changes what programs see only at the paths it names and below   *)
(* them: lifting or setting a whiteout, shadowing an ext4 directory in     *)
(* MemFs, mounting, or rewriting the keys of a renamed subtree never       *)
(* changes the kind of any other path, even when calls overlap.            *)
OnlyNamedChange ==
    [][\A p \in Paths : Kind(p)' # Kind(p) =>
          \E t \in NsThreads : \/ p \in TreeOf(op[t].call.old) \cup TreeOf(op[t].call.new)
                              \/ p \in TreeOf(op[t].path)]_nsVars

(* Together: names, hard links and the cache of probes agree with each     *)
(* other after any run of calls.                                           *)
NamesSafe == NsTypeOK /\ NoTempLeft /\ HardLinkIdentity /\ ProbeExact

=============================================================================
