-------------------------------- MODULE MCVfs --------------------------------
(* Vfs with the workloads TLC explores. *)
EXTENDS Vfs

ReadOnly == [read |-> TRUE, write |-> FALSE, creat |-> FALSE, trunc |-> FALSE, append |-> FALSE]
Update == [ReadOnly EXCEPT !.write = TRUE, !.creat = TRUE]
Rewrite == [Update EXCEPT !.read = FALSE, !.trunc = TRUE]
Extend == [Update EXCEPT !.append = TRUE]

\* One file, one descriptor at a time, every fault
Alone == [values |-> {"a", "b"}, modes |-> {Update, Rewrite, Extend}, calls |-> {"read", "write", "lseek", "close"},
          files |-> 1, fds |-> 1, jobs |-> 4, faults |-> {"read", "write", "power"}]

\* Two files and two descriptors, on one file or on both
Pair == [values |-> {"a"}, modes |-> {ReadOnly, Update}, calls |-> {"write", "fsync", "sync", "close"},
         files |-> 2, fds |-> 2, jobs |-> 4, faults |-> {"write"}]

\* Two files made and kept open
Making == [values |-> {}, modes |-> {Update}, calls |-> {}, files |-> 2, fds |-> 2, jobs |-> 2, faults |-> {}]

\* An archive with directories, a link, a damaged entry and one after it
File(path) == [path |-> path, regular |-> TRUE, ok |-> TRUE]
Archive == <<File(<<"init">>), File(<<"bin", "ls">>), [File(<<"bin", "sh">>) EXCEPT !.regular = FALSE],
             File(<<"bin", "x", "y">>), File(<<"lib", "x">>), File(<<"bin", "x", "z">>),
             [File(<<"etc">>) EXCEPT !.ok = FALSE], File(<<"tmp">>)>>

NoListing == [archive |-> <<>>, paths |-> {}, names |-> {}, long |-> {}, buffers |-> {}]

\* Directories, read in pieces while files are made
Listing == [archive |-> Archive,
            paths |-> {<<"/">>, <<"bin">>, <<"..">>, <<"/", "bin", ".", "x", "..">>, <<"persist">>,
                       <<"..", "..", "bin", "x", "..", "..", "lib">>},
            names |-> {"init", "bin", "ls", "sh", "x", "y", "lib", "etc", "tmp", "persist"},
            long |-> {"bin", "x", "two"}, buffers |-> {1, 3}]

MCNames == <<"one", "two">>

MCWorkloads == {Alone @@ NoListing, Pair @@ NoListing, Making @@ Listing}
=============================================================================
