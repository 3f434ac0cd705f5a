------------------------------- MODULE MCNames -------------------------------
(***************************************************************************)
(* Names: the kernel's tree of names (Namespace), which lays files in      *)
(* memory over the ext4 volume, and the names of the volume (Ext4Names).   *)
(* A behaviour exercises one family of calls, `fam', with `left' calls     *)
(* still to make; the component the family does not touch keeps its        *)
(* initial state.                                                          *)
(***************************************************************************)
EXTENDS Namespace, Ext4Names, TLC

CONSTANTS t1, t2

VARIABLES fam, left

OfNames == {"tree", "caches", "overlay", "mounts"}
OfVolume == {"names", "dirs", "meta", "open"}
Families == [tree |-> 4, caches |-> 3, overlay |-> 4, mounts |-> 4,
             names |-> 4, dirs |-> 4, meta |-> 4, open |-> 5]

-----------------------------------------------------------------------------
(* The kernel's names: /t lives in memory, /e is the ext4 volume, with the *)
(* directory /e/a and the file /e/a/x.                                     *)

MCPaths == {<<>>} \cup {<<d>> : d \in {"t", "e"}}
           \cup {<<d, n>> : d \in {"t", "e"}, n \in {"a", "b", "~"}}
           \cup {<<d, n, "x">> : d \in {"t", "e"}, n \in {"a", "b", "~"}}
MCTargets == {[rel |-> TRUE, names |-> <<"b">>], [rel |-> FALSE, names |-> <<"t", "b">>]}
MCVolatile == {"t"}

On(n, P) == {[NoCall EXCEPT !.name = n, !.old = o] : o \in P}
To(n, O, W) == {[NoCall EXCEPT !.name = n, !.old = o, !.new = w] : o \in O, w \in W}
Links(P) == {[NoCall EXCEPT !.name = "symlink", !.old = o, !.to = to] : o \in P, to \in MCTargets}
A(d) == <<d, "a">>
B(d) == <<d, "b">>
X(d) == <<d, "a", "x">>
Y(d) == <<d, "b", "x">>

NameCalls ==
    [tree |-> UNION {On(n, {A("t"), X("t")}) : n \in {"unlink", "creat", "mkdir", "mknod"}}
              \cup On("rmdir", {A("t"), B("t")}) \cup Links({B("t")})
              \cup To("rename", {A("t"), X("t")}, {B("t"), Y("t")}) \cup To("rename", {B("t")}, {A("t")})
              \cup To("exchange", {A("t")}, {B("t")}) \cup To("exchange", {B("t")}, {X("t")})
              \cup To("link", {A("t"), X("t")}, {B("t")}) \cup To("link", {X("t")}, {Y("t")}),
     caches |-> UNION {On(n, {A("t"), X("t"), B("t")}) : n \in {"stat", "readlink"}}
                \cup On("unlink", {A("t"), B("t")}) \cup On("mkdir", {B("t")}) \cup On("rmdir", {B("t")})
                \cup On("open", {X("t"), A("t")}) \cup Links({A("t")})
                \cup To("rename", {A("t")}, {B("t")}) \cup To("rename", {B("t")}, {A("t")}),
     overlay |-> UNION {On(n, {A("e"), X("e")}) : n \in {"unlink", "rmdir", "mkdir", "mknod", "open"}}
                 \cup On("stat", {X("e")}) \cup Links({A("e")})
                 \cup To("rename", {A("e")}, {B("e")}) \cup To("link", {X("e")}, {B("e")})
                 \cup To("exchange", {B("e")}, {X("e")}),
     mounts |-> On("mount", {A("e")}) \cup On("umount", {A("e")})
                \cup {[c EXCEPT !.flag = TRUE] : c \in On("remount", {A("e")}) \cup On("mount", {A("t")})}
                \cup UNION {On(n, {A("e"), X("e")}) : n \in {"open", "stat", "unlink", "rmdir"}}]

Lower(path) ==
    CASE path \in {<<>>, <<"e">>, A("e")} -> [kind |-> "dir", to |-> NoPath]
      [] path = X("e") -> [kind |-> "file", to |-> NoPath]
      [] OTHER -> NoNode

NamesInit ==
    /\ mem = AddDirWithMode(EmptyMemFs, <<"t">>, 1)
    /\ ext = [path \in Paths |-> Lower(path)]
    /\ white = {}
    /\ mounts = {[at |-> Root, tmpfs |-> FALSE, ro |-> FALSE]}
    /\ cache = EmptyCaches
    /\ op = [t \in NsThreads |-> NsIdle]
    /\ solo = TRUE

\* Two threads race in the family "caches"; the others make one call at a time.
NamesCall(t) ==
    /\ IF fam = "caches" THEN t = t1 \/ op[t1].pc # "idle"
       ELSE t = t1 /\ \A r \in NsThreads : op[r].pc = "idle"
    /\ \/ \E c \in NameCalls[fam] : NsCall(t, c)
       \/ fam = "tree" /\ \E path \in {A("t"), B("t")} : NodeCall(t, path)

-----------------------------------------------------------------------------
(* The volume: the directory /a and the file /a/a.                         *)

MCNames == {"a", "b", "~"}
MCE4Paths == {<<>>} \cup {<<n>> : n \in MCNames} \cup {<<n, m>> : n \in MCNames, m \in MCNames}
             \cup {<<"a", "a", "a">>}
VA == <<"a">>
VB == <<"b">>
VX == <<"a", "a">>
VY == <<"b", "a">>

Inode(kind, links) == [used |-> TRUE, kind |-> kind, links |-> links, mode |-> 1, to |-> <<>>]
VolumeInit ==
    /\ vol = [inode |-> [i \in Inos |-> CASE i = 1 -> Inode("dir", 3) [] i = 2 -> Inode("dir", 2)
                                          [] i = 3 -> Inode("reg", 1) [] OTHER -> NewInode],
              dirs |-> [i \in Inos |-> CASE i = 1 -> [EmptyDir EXCEPT !["a"] = 2]
                                         [] i = 2 -> [EmptyDir EXCEPT !["a"] = 3]
                                         [] OTHER -> EmptyDir],
              path |-> [path \in E4Paths |-> NoEntry], neg |-> {},
              dirc |-> [i \in Inos |-> NoEntry], metac |-> [i \in Inos |-> NoEntry]]
    /\ refs = [i \in Inos |-> 0]
    /\ pend = {}
    /\ e4 = [t \in E4Threads |-> E4Idle]

Mutates(t, c, path, other) == MutateCall(t, c, path, other, 1)

\* Two threads race in the family "names".
VolumeCall(t) ==
    /\ IF fam = "names" THEN t = t1 \/ e4[t1].pc # "idle"
       ELSE t = t1 /\ \A r \in E4Threads : e4[r].pc = "idle"
    /\ \/ /\ fam = "names"
          /\ \/ \E path \in {VA, VB, VX} : LookupCall(t, path)
             \/ ReadCall(t, "list", VA) \/ UnlinkCall(t, VX)
             \/ \E c \in {"creat", "mkdir"} : Mutates(t, c, VB, <<>>)
             \/ Mutates(t, "rmdir", VA, <<>>)
             \/ RenameCall(t, VA, VB) \/ RenameCall(t, VA, VX)
             \/ RenameCall(t, VX, VB) \/ RenameCall(t, VB, VA)
       \/ /\ fam = "dirs"
          /\ \/ \E path \in {VA, VB, VX, VY}, c \in {"list", "resolve"} : ReadCall(t, c, path)
             \/ \E path \in {VX, VY, VB} : Mutates(t, "mkdir", path, <<>>) \/ UnlinkCall(t, path)
             \/ \E path \in {VA, VX} : Mutates(t, "rmdir", path, <<>>)
             \/ Mutates(t, "symlink", VB, VA)
             \/ \E c \in {"link", "linkf"} :
                    Mutates(t, c, VB, VX) \/ Mutates(t, c, VX, VB) \/ Mutates(t, c, <<"a", "b">>, VY)
             \/ \E path \in {VA, VB, VX}, other \in {VA, VB, VX, VY} : RenameCall(t, path, other)
             \/ \E other \in {VA, VB, VX} : Mutates(t, "exchange", VB, other)
       \/ /\ fam = "meta"
          /\ \/ \E c \in {"stat", "chmod"} : PathCall(t, c, VX, 2)
             \/ UnlinkCall(t, VX) \/ Mutates(t, "mkdir", VB, <<>>)
       \/ /\ fam = "open"
          /\ \/ PathCall(t, "open", VX, 1) \/ UnlinkCall(t, VX)
             \/ \E path \in {VX, VB} : Mutates(t, "creat", path, <<>>)
             \/ \E i \in Inos : CloseCall(t, i)
             \/ RenameCall(t, VB, VX)

-----------------------------------------------------------------------------

VfsInit ==
    /\ fam \in DOMAIN Families /\ left = Families[fam]
    /\ NamesInit /\ VolumeInit

OneCall == left > 0 /\ left' = left - 1

NamesNext ==
    /\ fam' = fam
    /\ \/ /\ fam \in OfNames
          /\ \E t \in NsThreads : \/ NsStep(t) /\ UNCHANGED left
                                  \/ OneCall /\ NamesCall(t)
          /\ UNCHANGED e4Vars
       \/ /\ fam \in OfVolume
          /\ \E t \in E4Threads : \/ E4Step(t) /\ UNCHANGED left
                                  \/ OneCall /\ VolumeCall(t)
          /\ UNCHANGED nsVars

NamesSpec == VfsInit /\ [][NamesNext]_<<nsVars, e4Vars, fam, left>>

=============================================================================
