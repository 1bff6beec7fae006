--------------------------------- MODULE Vfs ---------------------------------
(***************************************************************************)
(* Paths and directories (src/fs/vfs.c): the initramfs archive, canonical  *)
(* paths, the current directory, and directories read in pieces while      *)
(* files are made in /persist (module Files).                              *)
(*                                                                         *)
(* A path is the sequence of its components; empty ones (repeated slashes) *)
(* are left out, "." and ".." are not.  A directory record is as long as   *)
(* its name: 1 or, for the names in load.long, 2.                          *)
(***************************************************************************)
EXTENDS Files, SequencesExt

CONSTANTS MaxInitrd,  \* MAX_INITRD_FILES
          MaxPath,    \* VFS_NAME_CAPACITY, in components
          FileNames,  \* the names of the persistent files
          NoDir       \* no directory is open

VARIABLES initrd,  \* files[0..file_count - 1]: the paths of the archive's files
          cwd,  \* current directory of the process
          dir   \* the open directory: path, offset, records got so far,
                \* entries lost, entries there when it was opened, end seen

dirVars == <<initrd, cwd, dir>>
vfsVars == <<allVars, dirVars>>

-----------------------------------------------------------------------------
(* Paths.                                                                  *)

\* Mutant: ".." takes nothing away.
CanonicalKeepsParent(path) == SelectSeq(path, LAMBDA c : c \notin {".", ".."})

canonicalize_path(path) ==
    LET Step(out, c) == CASE c = "." -> out
                          [] c = ".." -> IF out = <<>> THEN out ELSE Front(out)
                          [] OTHER -> Append(out, c)
    IN FoldLeft(Step, <<>>, path)

\* An absolute path begins with "/" in this module.  <<"?">>: too long.
vfs_resolve_path(from, path) ==
    LET joined == IF Head(path) = "/" THEN Tail(path) ELSE from \o path
    IN IF Len(joined) > MaxPath THEN <<"?">> ELSE canonicalize_path(joined)

\* The regular files of the archive, up to the first entry that is damaged
parse_newc(archive) ==
    LET damaged == {i \in DOMAIN archive : ~archive[i].ok}
        sound == IF damaged = {} THEN archive ELSE SubSeq(archive, 1, Min(damaged) - 1)
        regular == SelectSeq(sound, LAMBDA e : e.regular)
    IN [i \in 1..Min({Len(regular), MaxInitrd}) |-> regular[i].path]

initrd_directory_exists(path) == \E i \in DOMAIN initrd : IsStrictPrefix(path, initrd[i])

\* What vfs_open_flags finds at a canonical path, in the order it looks
Found(path) ==
    CASE path = <<"persist">> -> "directory"
      [] Len(path) = 2 /\ path[1] = "persist" -> "persistent"
      [] path # <<>> /\ path[1] = "proc" -> "snapshot"
      [] path = <<>> \/ initrd_directory_exists(path) -> "directory"
      [] path \in Range(initrd) -> "file"
      [] OTHER -> "enoent"

-----------------------------------------------------------------------------
(* Directories.                                                            *)

Entry(name, directory) == [name |-> name, directory |-> directory]

\* Mutant: a name that only begins like the directory's is taken for a child.
ChildrenByFirstName(path) ==
    LET Child(p) == Entry(p[Len(path) + 1], Len(p) > Len(path) + 1)
        Step(seen, p) == IF Len(p) <= Len(path) \/ Child(p) \in Range(seen) THEN seen
                         ELSE Append(seen, Child(p))
    IN FoldLeft(Step, <<>>, initrd)

\* initrd_child_at with initrd_child_from_name and initrd_child_seen: the
\* names below a directory, each once, in the order of the archive
initrd_children(path) ==
    LET Child(p) == Entry(p[Len(path) + 1], Len(p) > Len(path) + 1)
        Step(seen, p) == IF ~IsStrictPrefix(path, p) \/ Child(p) \in Range(seen) THEN seen
                         ELSE Append(seen, Child(p))
    IN FoldLeft(Step, <<>>, initrd)

\* The entries of an open directory by offset; in /persist an inode that is
\* not used takes an offset and no record.
Entries(path) ==
    IF path = <<"persist">>
    THEN [f \in Files |-> IF inodes[f] = NoInode THEN Entry(NoInode, FALSE) ELSE Entry(FileNames[f], FALSE)]
    ELSE <<Entry(".", TRUE), Entry("..", TRUE)>>
         \o (IF path = <<>> /\ up THEN <<Entry("persist", TRUE)>> ELSE <<>>)
         \o initrd_children(path)

RecordLength(e) == IF e.name = NoInode THEN 0 ELSE IF e.name \in load.long THEN 2 ELSE 1
There(path) == {e \in Range(Entries(path)) : e.name # NoInode}

vfs_open_directory(path) ==
    /\ Ready
    /\ dir = NoDir
    /\ LET at == vfs_resolve_path(cwd, path) IN
       /\ Found(at) = "directory"
       /\ dir' = [path |-> at, offset |-> 0, got |-> <<>>, lost |-> {}, start |-> There(at), end |-> FALSE]
    /\ UNCHANGED <<initrd, cwd>>

\* Mutant: an entry that does not fit any more is skipped.
GetdentsSkips(capacity, copied) ==
    /\ Ready
    /\ dir # NoDir
    /\ LET entries == Entries(dir.path)
           rest == SubSeq(entries, dir.offset + 1, Len(entries))
           Length(k) == FoldLeft(LAMBDA sum, e : sum + RecordLength(e), 0, SubSeq(rest, 1, k))
           fit == Max({k \in 0..Len(rest) : Length(k) <= capacity})
           records == SelectSeq(SubSeq(rest, 1, fit), LAMBDA e : e.name # NoInode)
       IN dir' = [dir EXCEPT !.offset = @ + fit + 1, !.got = @ \o records, !.end = records = <<>>]
    /\ UNCHANGED <<initrd, cwd>>

\* vfs_getdents64 through sys_getdents64: as many records as fit.  The offset
\* has passed an entry before its record is found too long even for an empty
\* buffer (-EINVAL); records that cannot be copied to the program (-EFAULT) are
\* not returned again either.  (At the end of an initramfs directory every call
\* also adds one to the offset, which no call can tell.)
vfs_getdents64(capacity, copied) ==
    /\ Ready
    /\ dir # NoDir
    /\ LET entries == Entries(dir.path)
           rest == SubSeq(entries, dir.offset + 1, Len(entries))
           Length(k) == FoldLeft(LAMBDA sum, e : sum + RecordLength(e), 0, SubSeq(rest, 1, k))
           fit == Max({k \in 0..Len(rest) : Length(k) <= capacity})
           records == SelectSeq(SubSeq(rest, 1, fit), LAMBDA e : e.name # NoInode)
       IN dir' = CASE records = <<>> /\ fit < Len(rest) ->
                        [dir EXCEPT !.offset = @ + fit + 1, !.lost = @ \cup {rest[fit + 1]}]
                   [] ~copied /\ records # <<>> ->
                        [dir EXCEPT !.offset = @ + fit, !.lost = @ \cup Range(records)]
                   [] OTHER ->
                        [dir EXCEPT !.offset = @ + fit, !.got = @ \o records, !.end = records = <<>>]
    /\ UNCHANGED <<initrd, cwd>>

vfs_close_directory == Ready /\ dir # NoDir /\ dir' = NoDir /\ UNCHANGED <<initrd, cwd>>

sys_chdir(path) ==
    /\ Ready
    /\ LET to == vfs_resolve_path(cwd, path) IN
       /\ Found(to) = "directory"
       /\ cwd' = to
    /\ UNCHANGED <<initrd, dir>>

VfsInit == FilesInit /\ initrd = parse_newc(load.archive) /\ cwd = <<>> /\ dir = NoDir

VfsNext ==
    \/ /\ FilesNext
       /\ IF up' THEN UNCHANGED dirVars ELSE cwd' = <<>> /\ dir' = NoDir /\ UNCHANGED initrd
    \/ /\ \/ \E path \in load.paths : vfs_open_directory(path) \/ sys_chdir(path)
          \/ \E capacity \in load.buffers, copied \in BOOLEAN : vfs_getdents64(capacity, copied)
          \/ vfs_close_directory
       /\ UNCHANGED allVars

VfsSpec == VfsInit /\ [][VfsNext]_vfsVars

-----------------------------------------------------------------------------
(* Properties.                                                             *)

\* A directory read to its end, in any pieces and with files made meanwhile,
\* has given each entry at most once and none of those it had from the start
\* is missing, except entries of a call that returned an error.
ListedOnce ==
    dir # NoDir =>
        /\ IsInjective(dir.got)
        /\ Range(dir.got) \cap dir.lost = {}
        /\ dir.end => dir.start \subseteq Range(dir.got) \cup dir.lost

\* The components that are left of a path: the names that no later ".." takes
\* away, that is, every stretch that follows has at least as many names as "..".
Remaining(path) ==
    LET Names(i, j) == Cardinality({k \in i..j : path[k] \notin {".", ".."}})
        Parents(i, j) == Cardinality({k \in i..j : path[k] = ".."})
        kept == {i \in DOMAIN path : /\ path[i] \notin {".", ".."}
                                     /\ \A j \in (i + 1)..Len(path) : Parents(i + 1, j) <= Names(i + 1, j)}
    IN [n \in 1..Cardinality(kept) |-> path[SetToSortSeq(kept, <)[n]]]

\* Paths and directories agree: a path resolves to the components that are
\* left of it, the current directory is a directory, and the entries of a
\* directory of the archive are exactly what can be opened in it, with the type
\* that opening finds.
PathsAgree == dir = NoDir /\ Idle =>
    /\ Found(cwd) = "directory" /\ Remaining(cwd) = cwd
    /\ \A path \in load.paths :
         LET at == vfs_resolve_path(cwd, path)
             joined == IF Head(path) = "/" THEN Tail(path) ELSE cwd \o path
         IN /\ at # <<"?">> => at = Remaining(joined)
            /\ (at # <<"?">> /\ Found(at) = "directory" /\ at # <<"persist">>) =>
                 \A name \in load.names :
                    /\ (Entry(name, TRUE) \in There(at)) <=> (Found(Append(at, name)) = "directory" /\ (name = "persist" /\ at = <<>> => up))
                    /\ (Entry(name, FALSE) \in There(at)) <=> (Found(Append(at, name)) = "file")
=============================================================================
