------------------------------- MODULE MCMemory -------------------------------
(* Memory with the workloads TLC explores, one per behaviour. *)
EXTENDS Memory

NoImage == [header |-> FALSE, type |-> "exec", size |-> 0, entry |-> 0, headers |-> <<>>]
Image(type, entry, headers) == [header |-> TRUE, type |-> type, size |-> 9, entry |-> entry, headers |-> headers]
Segment(vaddr, offset, filesz, memsz, flags, align) ==
    [type |-> "load", vaddr |-> vaddr, offset |-> offset, filesz |-> filesz, memsz |-> memsz,
     flags |-> flags, align |-> align, text |-> <<>>]
Text(type, filesz, text) ==
    [type |-> type, vaddr |-> 0, offset |-> 2, filesz |-> filesz, memsz |-> 7, flags |-> {}, align |-> 1, text |-> text]

\* Two processes that fork, write and unmap private pages
Forking == [calls |-> {"mmap", "munmap", "fork", "exit"}, kinds |-> {"anon"}, prots |-> {"rw"},
            procs |-> 2, pages |-> 2, frames |-> 12, images |-> {}, interp |-> NoImage]

\* Three generations and a shared object
Sharing == [calls |-> {"mmap", "munmap", "fork", "exit", "shm"}, kinds |-> {"anon", "shm"}, prots |-> {"rw"},
            procs |-> 3, pages |-> 1, frames |-> 13, images |-> {}, interp |-> NoImage]

\* One process that changes protections in a machine with too few frames
Short == [calls |-> {"mmap", "munmap", "mprotect", "exit"}, kinds |-> {"file"}, prots |-> {"r", "rw", "rx"},
          procs |-> 1, pages |-> 3, frames |-> 7, images |-> {}, interp |-> NoImage]

\* Programs: one page of code; code and data; one with an interpreter
Code == Segment(4, 0, 2, 3, {"x"}, 4)
Small == Image("exec", 5, <<Code>>)
Usual == Image("exec", 5, <<Code, Segment(9, 1, 3, 3, {"w"}, 4)>>)
Dynamic == Image("dyn", 0, <<Text("interp", 5, <<"name", "name">>), Segment(0, 0, 4, 4, {"x"}, 4),
                             Text("dynamic", 4, <<"tag", "null">>)>>)
Loader == Image("dyn", 1, <<Segment(1, 1, 2, 3, {"x"}, 1)>>)

\* Processes that fork and execute programs
Executing == [calls |-> {"exec", "fork", "exit"}, kinds |-> {}, prots |-> {},
              procs |-> 2, pages |-> 2, frames |-> 26, images |-> {Small}, interp |-> NoImage]

\* A program that forks and moves its break
Growing == [Executing EXCEPT !.calls = {"spawn", "fork", "brk"}, !.procs = 3]

\* One process that executes programs, in a machine with n frames
Running(n) == [calls |-> {"exec", "spawn", "exit", "brk"}, kinds |-> {}, prots |-> {},
               procs |-> 1, pages |-> 1, frames |-> n, images |-> {Usual, Dynamic}, interp |-> Loader]

\* A program that maps a shared object and unmaps parts of its image
Mapping == [Running(20) EXCEPT !.calls = {"exec", "mmap", "munmap", "shm"}, !.kinds = {"shm"}, !.prots = {"rw"},
                               !.images = {Usual}]

\* Images of one segment, beside another or not, or with a text
Segments == {Segment(v, o, f, m, fl, a) : v \in {0, 3, 4, 6, 11, 23, 27, 28, 61}, o \in {0, 3, 8}, f \in {0, 1, 6},
                                          m \in {0, 1, 6, 12, 60}, fl \in {{"x"}, {"w"}, {"w", "x"}}, a \in {1, 3, 4}}
Texts == {<<>>, <<"name">>, <<"name", "..">>, <<"..", "name">>, <<"..x">>, <<"bad">>, <<"null">>, <<"negative", "null">>}
MCImages == {Image(type, e, <<h>>) : type \in {"exec", "dyn"}, e \in {4, 11}, h \in Segments}
          \cup {Image("exec", 9, <<h, Segment(9, 1, 2, 2, {"x"}, 4)>>) : h \in Segments}
          \cup {Image("exec", 5, <<Code, Text(type, f, text)>>) : type \in {"interp", "dynamic"}, f \in {0, 4, 6, 7, 8}, text \in Texts}

\* All of them are checked, and those accepted are executed
Checking == [calls |-> {"validate"}, kinds |-> {}, prots |-> {},
             procs |-> 1, pages |-> 1, frames |-> 13, images |-> {}, interp |-> Loader]
Strange(i) == [Checking EXCEPT !.calls = {"spawn"}, !.procs = 2, !.images = {i}]

MCWorkloads == {Forking, Sharing, Short, Executing, Growing, Mapping, Checking}
               \cup {Running(n) : n \in 4..20} \cup {Strange(i) : i \in {i \in MCImages : elf64_validate(i)}}
=============================================================================
