-------------------------------- MODULE MemFs --------------------------------
(***************************************************************************)
(* MemFileSystem of os/src/fs/mod.rs: the in-memory tree behind /tmp, the  *)
(* pseudo files and the overlay over ext4.  The code keeps the tree as     *)
(* flat collections keyed by full path (files with an index of their       *)
(* names, dirs, symlinks, specials, metadata, xattrs by inode number), so  *)
(* one path may in principle be in several of them; the model keeps the    *)
(* same collections.  Every operator maps a tree to the tree the method    *)
(* leaves, and a predicate named Can... says when the method succeeds.     *)
(*                                                                         *)
(* A path is a sequence of names, <<>> being "/".  Contents and times are  *)
(* left out; a backing (the Arc<Mutex<MemFileBacking>> hard links share)   *)
(* is named by the inode number allocated when it was made.                *)
(***************************************************************************)
EXTENDS Naturals, Sequences, FiniteSets

CONSTANTS Paths,     \* the paths of the instance, closed under prefixes
          NoPath,    \* "no such symbolic link"
          MaxIno,    \* bound on the inode numbers handed out
          XKeys,     \* names of extended attributes
          TempName   \* the name rename-exchange parks a node under

Root == <<>>

(* parent_path: "/" is its own parent. *)
ParentPath(p) == IF p = Root THEN Root ELSE SubSeq(p, 1, Len(p) - 1)

(* is_descendant strips the parent and then one '/': nothing descends     *)
(* from "/".                                                              *)
IsDescendant(d, p) == d # Root /\ Len(p) > Len(d) /\ SubSeq(p, 1, Len(d)) = d
InTree(d, p) == p = d \/ IsDescendant(d, p)

(* The path a node under `old` has once `old` is renamed to `new`.        *)
Rebase(p, old, new) == new \o SubSeq(p, Len(old) + 1, Len(p))

NoMeta == [ino |-> 0, mode |-> 0, fixed |-> FALSE]
NewMeta(i, mode) == [ino |-> i, mode |-> mode, fixed |-> FALSE]

EmptyMemFs ==
    [files  |-> [p \in Paths |-> 0],          names  |-> {},
     dirs   |-> {Root},                       links  |-> [p \in Paths |-> NoPath],
     specs  |-> {},
     meta   |-> [p \in Paths |-> IF p = Root THEN NewMeta(1, 1) ELSE NoMeta],
     xattrs |-> [i \in 1..MaxIno |-> {}],     next   |-> 2]

Exists(m, p) == p \in m.names \cup m.dirs \cup m.specs \/ m.links[p] # NoPath

(* node_snapshot looks in dirs, then files, then symlinks, then specials. *)
MemKind(m, p) ==
    CASE p \in m.dirs         -> "dir"
      [] p \in m.names        -> "file"
      [] m.links[p] # NoPath  -> "link"
      [] p \in m.specs        -> "special"
      [] OTHER                -> "none"

DirHasEntries(m, d) == \E p \in Paths : IsDescendant(d, p) /\ Exists(m, p)

(* ensure_parent_dirs stops at the first component equal to the last one. *)
EnsureParentDirs(m, p) ==
    LET stop == CHOOSE i \in 1..Len(p) :
                    p[i] = p[Len(p)] /\ \A j \in 1..(i - 1) : p[j] # p[Len(p)]
        made == {SubSeq(p, 1, k) : k \in 1..(stop - 1)}
        bare == {q \in made : m.meta[q].ino = 0}
    IN [m EXCEPT
          !.dirs = @ \cup made,
          !.meta = [q \in Paths |->
              IF q \in bare
              THEN NewMeta(m.next + Cardinality({r \in bare : Len(r) < Len(q)}), 1)
              ELSE m.meta[q]],
          !.next = @ + Cardinality(bare)]

AddFileWithMode(m, p, mode) ==
    LET e == EnsureParentDirs(m, p)
    IN [e EXCEPT !.links[p] = NoPath, !.specs = @ \ {p},
                 !.files[p] = e.next, !.names = @ \cup {p},
                 !.meta[p] = NewMeta(e.next, mode), !.next = @ + 1]

AddDirWithMode(m, p, mode) ==
    LET e == [EnsureParentDirs(m, p) EXCEPT !.links[p] = NoPath, !.specs = @ \ {p}]
    IN IF p \in e.dirs
       THEN [e EXCEPT !.meta[p].mode = mode]
       ELSE [e EXCEPT !.dirs = @ \cup {p},
                      !.meta[p] = NewMeta(e.next, mode), !.next = @ + 1]

CanAddNode(m, p) == ParentPath(p) \in m.dirs /\ ~Exists(m, p)

AddSymlink(m, p, target) ==
    [m EXCEPT !.links[p] = target, !.meta[p] = NewMeta(m.next, 1), !.next = @ + 1]

AddSpecial(m, p, mode) ==
    [m EXCEPT !.specs = @ \cup {p}, !.meta[p] = NewMeta(m.next, mode), !.next = @ + 1]

RemoveFile_EveryLink(m, p) ==
    LET gone == {q \in Paths : q = p \/ (m.files[p] # 0 /\ m.files[q] = m.files[p])}
    IN [m EXCEPT !.names = @ \ gone, !.links[p] = NoPath, !.specs = @ \ {p},
                 !.files = [q \in Paths |-> IF q \in gone THEN 0 ELSE m.files[q]],
                 !.meta  = [q \in Paths |-> IF q \in gone THEN NoMeta ELSE m.meta[q]]]
RemoveFile(m, p) ==
    [m EXCEPT !.names = @ \ {p}, !.files[p] = 0, !.links[p] = NoPath,
              !.specs = @ \ {p}, !.meta[p] = NoMeta]

CanRemoveDir(m, p) == p # Root /\ p \in m.dirs /\ ~DirHasEntries(m, p)
RemoveDir(m, p) == [m EXCEPT !.dirs = @ \ {p}, !.meta[p] = NoMeta]

(* The branch of rename_path that moves a directory: every collection is   *)
(* rewritten, each entry below `old` reappearing below `new`.  The index   *)
(* of file names is rebuilt from the files.                                *)
RenameDir(m, old, new) ==
    LET below(p) == IsDescendant(old, p)
        from(p)  == Rebase(p, new, old)
        moved(f, none) == [p \in Paths |->
            IF IsDescendant(new, p) /\ from(p) \in Paths /\ f[from(p)] # none
            THEN f[from(p)] ELSE IF below(p) THEN none ELSE f[p]]
        files == moved(m.files, 0)
        ds    == IF new \in m.dirs THEN m.dirs \ {new} ELSE m.dirs
        tree  == {p \in ds : InTree(old, p)}
        meta  == [p \in Paths |->
            IF InTree(new, p) /\ from(p) \in Paths /\ m.meta[from(p)] # NoMeta
            THEN m.meta[from(p)]
            ELSE IF InTree(old, p) \/ (p = new /\ new \in m.dirs) THEN NoMeta
            ELSE m.meta[p]]
    IN [m EXCEPT !.dirs  = (ds \ tree) \cup {Rebase(p, old, new) : p \in tree},
                 !.files = files, !.names = {p \in Paths : files[p] # 0},
                 !.specs = {p \in @ : ~below(p)}
                           \cup {Rebase(p, old, new) : p \in {q \in @ : below(q)}},
                 !.links = moved(m.links, NoPath), !.meta = meta]

(* A special, a symbolic link or a file replaces what is at `new`.  The    *)
(* symbolic-link branch leaves a special found there in place.             *)
RenameLeaf(m, old, new) ==
    LET kind == CASE old \in m.specs        -> "special"
                  [] m.links[old] # NoPath  -> "link"
                  [] OTHER                  -> "file"
    IN [m EXCEPT
          !.files = [@ EXCEPT ![old] = IF kind = "file" THEN 0 ELSE @,
                              ![new] = IF kind = "file" THEN m.files[old] ELSE 0],
          !.names = IF kind = "file" THEN (@ \ {old}) \cup {new} ELSE @ \ {new},
          !.links = [@ EXCEPT ![old] = IF kind = "link" THEN NoPath ELSE @,
                              ![new] = IF kind = "link" THEN m.links[old] ELSE NoPath],
          !.specs = CASE kind = "special" -> (@ \ {old}) \cup {new}
                      [] kind = "link"    -> @
                      [] OTHER            -> @ \ {new},
          !.meta  = [@ EXCEPT ![old] = NoMeta, ![new] = m.meta[old]]]

CanRename(m, old, new) ==
    \/ old = new
    \/ /\ old # Root /\ ~IsDescendant(old, new)
       /\ ParentPath(new) \in m.dirs
       /\ IF old \in m.dirs
          THEN /\ new # Root
               /\ IF new \in m.dirs THEN ~DirHasEntries(m, new) ELSE ~Exists(m, new)
          ELSE /\ old \in m.specs \/ m.links[old] # NoPath \/ m.files[old] # 0
               /\ new \notin m.dirs

Rename(m, old, new) ==
    CASE old = new      -> m
      [] old \in m.dirs -> RenameDir(m, old, new)
      [] OTHER          -> RenameLeaf(m, old, new)

(* The instance's bound: a rename keeps every node inside Paths. *)
StaysInPaths(m, old, new) ==
    \A p \in Paths : IsDescendant(old, p) /\ Exists(m, p) => Rebase(p, old, new) \in Paths

(* exchange_path parks `old` under a temporary sibling; a second rename    *)
(* that fails is undone.                                                   *)
ExchangeTemp(old) == Append(ParentPath(old), TempName)
CanExchange(m, old, new) ==
    /\ old # Root /\ new # Root /\ Exists(m, old) /\ Exists(m, new)
    /\ ~(old \in m.dirs /\ IsDescendant(old, new))
    /\ ~(new \in m.dirs /\ IsDescendant(new, old))
    /\ ~Exists(m, ExchangeTemp(old))

Exchange(m, old, new) ==
    LET t  == ExchangeTemp(old)
        m1 == Rename(m, old, t)
        m2 == Rename(m1, new, old)
    IN IF ~CanRename(m, old, t) THEN m
       ELSE IF ~CanRename(m1, new, old) THEN Rename(m1, t, old)
       ELSE IF ~CanRename(m2, t, new) THEN m2
       ELSE Rename(m2, t, new)

(* The instance's bound again, for the three renames. *)
ExchangeStays(m, old, new) ==
    /\ StaysInPaths(m, old, ExchangeTemp(old)) /\ StaysInPaths(m, new, old)
    /\ StaysInPaths(m, old, new)

CanLink(m, old, new) ==
    /\ old \notin m.dirs /\ ~Exists(m, new) /\ ParentPath(new) \in m.dirs
    /\ m.files[old] # 0 \/ m.links[old] # NoPath \/ old \in m.specs

Link(m, old, new) ==
    LET n == [m EXCEPT !.meta[new] = m.meta[old]]
    IN CASE m.files[old] # 0 ->
              [n EXCEPT !.files[new] = m.files[old], !.names = @ \cup {new}]
         [] m.files[old] = 0 /\ m.links[old] # NoPath ->
              [n EXCEPT !.links[new] = m.links[old]]
         [] OTHER -> [n EXCEPT !.specs = @ \cup {new}]

(* set_mode changes the named entry only; set_file_flags changes every     *)
(* name of the same backing.                                               *)
SetMode(m, p, mode) == [m EXCEPT !.meta[p].mode = mode]
SetFileFlags(m, p, fixed) ==
    LET same == IF m.files[p] # 0 THEN {q \in Paths : m.files[q] = m.files[p]} ELSE {p}
    IN [m EXCEPT !.meta = [q \in Paths |->
            IF q \in same THEN [m.meta[q] EXCEPT !.fixed = fixed] ELSE m.meta[q]]]

(* Extended attributes hang off the inode number; only files and           *)
(* directories take them, and removing a node leaves them behind.          *)
CanSetXattr(m, p) == p \in m.names \cup m.dirs
SetXattr(m, p, k) == [m EXCEPT !.xattrs[m.meta[p].ino] = @ \cup {k}]
CanRemoveXattr(m, p, k) == CanSetXattr(m, p) /\ k \in m.xattrs[m.meta[p].ino]
RemoveXattr(m, p, k) == [m EXCEPT !.xattrs[m.meta[p].ino] = @ \ {k}]

=============================================================================
