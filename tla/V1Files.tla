-------------------------------- MODULE V1Files --------------------------------
(***************************************************************************)
(* The file manager of panel version 1 (services/filemanager.py): a tree   *)
(* under the allowed roots. A path is the sequence of names from its root; *)
(* a path that leaves the roots is refused by _resolve before anything     *)
(* happens and is not among Paths. Files hold numbered contents. Symbolic  *)
(* links are left out: _resolve replaces them by what they point to, so    *)
(* that deleting or renaming a link acts on its target. So are allowed     *)
(* roots that the server does not have: Roots are those it has.            *)
(***************************************************************************)
EXTENDS V1, SequencesExt

CONSTANTS
    Roots,        \* ALLOWED_ROOTS, all of which exist
    FileNames,
    MaxDepth,     \* bound: the names of a path, its root's included
    MaxContent,   \* bound: contents written
    MaxNodes      \* bound: files and directories below the roots

\* A root has a name like any other directory.
ASSUME FilesAssumption == Roots \subseteq FileNames /\ MaxDepth \in Nat \ {0} /\ Nil \notin Nat

VARIABLES
    fs,        \* Nil, Dir or a content for every path
    written,   \* the last content written
    op         \* history: the last operation

filesVars == <<fs, written, op>>

Dir   == 0
RootPaths == {<<r>> : r \in Roots}
Paths == {p \in UNION {[1 .. k -> FileNames] : k \in 1 .. MaxDepth} : p[1] \in Roots}

Exists(f, p) == f[p] # Nil
IsDir(f, p)  == f[p] = Dir
IsFile(f, p) == Exists(f, p) /\ f[p] # Dir
Parent(p)    == SubSeq(p, 1, Len(p) - 1)
Below(p)     == {q \in Paths : IsPrefix(p, q)}

\* mkdir(parents=True, exist_ok=True) of the parent: fails on a file.
ParentCanBe(f, p) == \A q \in Paths : IsStrictPrefix(q, p) => ~IsFile(f, q)
WithParents(f, p) == [q \in Paths |-> IF IsStrictPrefix(q, p) THEN Dir ELSE f[q]]
Put(f, p, c)      == [WithParents(f, p) EXCEPT ![p] = c]

\* The subtree of src at target, and without src when it is moved.
Grafted(f, src, target, moved) ==
    [q \in Paths |->
       IF IsPrefix(target, q)
       THEN LET p == src \o SubSeq(q, Len(target) + 1, Len(q)) IN IF p \in Paths THEN f[p] ELSE Nil
       ELSE IF moved /\ IsPrefix(src, q) THEN Nil ELSE f[q]]
Fits(f, src, target) ==
    \A q \in Below(src) : Exists(f, q) => Len(q) - Len(src) + Len(target) <= MaxDepth

FilesInit ==
    /\ fs = [p \in Paths |-> IF p \in RootPaths THEN Dir ELSE Nil]
    /\ written = 0 /\ op = "none"

Does(name, f) == fs' = f /\ op' = name

\* write_text, save_upload, compress, extract: a new content in p, over what
\* was there; a directory there, or a file on the way, is an error.
WriteFile(name, p) ==
    /\ Len(p) > 1 /\ ~IsDir(fs, p) /\ ParentCanBe(fs, p) /\ written < MaxContent
    /\ written' = written + 1
    /\ Does(name, Put(fs, p, written'))

WriteText(p)  == WriteFile("write", p)
SaveUpload(p) == WriteFile("upload", p)

\* compress writes the archive before it has read what goes in; an error of
\* a later path leaves it unfinished. extract writes a member.
Compress(p)   == WriteFile("compress", p)
Extract(a, p) == IsFile(fs, a) /\ WriteFile("extract", p)

\* mkdir, new_file: not over anything.
Mkdir(p) ==
    /\ ~Exists(fs, p) /\ ParentCanBe(fs, p)
    /\ Does("mkdir", Put(fs, p, Dir))
    /\ UNCHANGED written

NewFile(p) ==
    /\ ~Exists(fs, p) /\ ParentCanBe(fs, p) /\ written < MaxContent
    /\ written' = written + 1
    /\ Does("new", Put(fs, p, written'))

M_Deletes(p) == Exists(fs, p)

\* delete: never a root; a directory with everything below it.
Deletes(p) == Exists(fs, p) /\ p \notin RootPaths

\* delete_items passes over the paths that cannot be deleted; delete takes
\* one path.
DeleteItems(ps) ==
    LET gone == {p \in ps : Deletes(p)}
    IN /\ gone # {}
       /\ Does("delete", [q \in Paths |-> IF \E p \in gone : IsPrefix(p, q) THEN Nil ELSE fs[q]])
       /\ UNCHANGED written

M_UniqueTargets(f, d, name) == {Append(d, name)}

\* _unique_target: the name itself if it is free in d, else the first free
\* name made from it, any free name here.
UniqueTargets(f, d, name) ==
    IF ~Exists(f, Append(d, name)) THEN {Append(d, name)}
    ELSE {Append(d, n) : n \in {m \in FileNames : ~Exists(f, Append(d, m))}}

\* One path of copy_items, copied into d.
CopyItem(f, src, d) ==
    IF ~Exists(f, src) THEN {f}
    ELSE {Grafted(f, src, t, FALSE) : t \in {u \in UniqueTargets(f, d, Last(src)) : Fits(f, src, u)}}

\* One path of move_items. Between file systems the move is a copy and a
\* deletion, and may end after the copy.
MoveItem(f, src, d) ==
    IF ~Exists(f, src) THEN {f}
    ELSE {Grafted(f, src, t, moved) :
            t \in {u \in UniqueTargets(f, d, Last(src)) : Fits(f, src, u)}, moved \in BOOLEAN}

\* What stops the loops with an exception: a directory into itself (found by
\* comparing the text of the paths, abstracted to the subtree); a root.
Refused(f, src, d, moves) ==
    \/ Exists(f, src) /\ IsDir(f, src) /\ IsPrefix(src, d)
    \/ moves /\ Exists(f, src) /\ src \in RootPaths

\* copy_items and move_items of two paths: the exception of the second comes
\* after the first is done.
TransferItems(moves, first, second, d) ==
    LET Item(f, src) == IF moves THEN MoveItem(f, src, d) ELSE CopyItem(f, src, d)
        name == IF moves THEN "move" ELSE "copy"
    IN /\ Len(d) < MaxDepth /\ IsDir(fs, d)
       /\ ~Refused(fs, first, d, moves)
       /\ \E f \in Item(fs, first) :
             IF Refused(f, second, d, moves) \/ ~IsDir(f, d)
             THEN Does(name, f)
             ELSE \E g \in Item(f, second) : Does(name, g)
       /\ UNCHANGED written

CopyItems(first, second, d) == TransferItems(FALSE, first, second, d)
MoveItems(first, second, d) == TransferItems(TRUE, first, second, d)

\* rename: within the parent, never over an existing path. A root's new name
\* would have to be another root, and those exist.
Rename(p, n) ==
    LET target == Append(Parent(p), n)
    IN /\ Len(p) > 1 /\ Exists(fs, p) /\ ~Exists(fs, target)
       /\ Does("rename", Grafted(fs, p, target, TRUE))
       /\ UNCHANGED written

FilesNext ==
    \/ \E p \in Paths : \/ WriteText(p) \/ SaveUpload(p) \/ Compress(p) \/ Mkdir(p) \/ NewFile(p)
                        \/ \E a \in Paths : Extract(a, p)
                        \/ \E n \in FileNames : Rename(p, n)
    \/ \E p, q \in Paths : DeleteItems({p, q})
    \/ \E p, q, d \in Paths : CopyItems(p, q, d) \/ MoveItems(p, q, d)

FilesSpec == FilesInit /\ [][FilesNext]_filesVars

Nodes(f)    == {p \in Paths \ RootPaths : Exists(f, p)}
Contents(f) == {f[p] : p \in {q \in Paths : IsFile(f, q)}}

-----------------------------------------------------------------------------
\* Operations that are not meant to replace anything lose nothing, even when
\* an error ends a list half-way: after a move or a rename every content is
\* still somewhere, and a copy, a new file or directory leaves every existing
\* path as it was. Every path hangs below directories, and the roots stay.
NothingLost ==
    [][op' # "none" =>
         /\ op' \in {"copy", "move", "rename", "mkdir", "new"} => Contents(fs) \subseteq Contents(fs')
         /\ op' \in {"copy", "mkdir", "new"} => \A p \in Paths : Exists(fs, p) => fs'[p] = fs[p]
         /\ \A p \in RootPaths : IsDir(fs', p)
         /\ \A p \in Paths : Exists(fs', p) => \A q \in Paths : IsStrictPrefix(q, p) => IsDir(fs', q)
      ]_filesVars
=============================================================================
