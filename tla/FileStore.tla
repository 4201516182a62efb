----------------------------- MODULE FileStore -----------------------------
(***************************************************************************)
(* What programs expect of a file system with one directory: names refer   *)
(* to files, a file is there as long as it has a name or somebody has it   *)
(* open, and it holds the bytes that were written to it.                   *)
(***************************************************************************)
EXTENDS Naturals, FiniteSets

CONSTANTS Procs, Names, Ids, NULL, Writes, Lengths

VARIABLES
    names,    \* name -> the file, or 0
    files,    \* file -> [size, bytes], or NULL
    opened    \* process -> the files it has open

vars == <<names, files, opened>>

Init ==
    /\ names = [n \in Names |-> 0]
    /\ files = [f \in Ids |-> NULL]
    /\ opened = [p \in Procs |-> {}]

OpenFile(p, f) == opened' = [opened EXCEPT ![p] = @ \cup {f}]

Create(p, n) ==
    /\ names[n] = 0
    /\ \E f \in Ids \ {0} :
        /\ names' = [names EXCEPT ![n] = f]
        /\ files[f] = NULL
        /\ files' = [files EXCEPT ![f] = [size |-> 0, bytes |-> {}]]
        /\ OpenFile(p, f)

Open(p, n) ==
    /\ names[n] # 0
    /\ OpenFile(p, names[n])
    /\ UNCHANGED <<names, files>>

Close(p, f) ==
    /\ opened' = [opened EXCEPT ![p] = @ \ {f}]
    /\ UNCHANGED <<names, files>>

Link(n, f) ==
    /\ names[n] = 0
    /\ names' = [names EXCEPT ![n] = f]
    /\ files[f] # NULL
    /\ UNCHANGED <<files, opened>>

\* With nobody using it, the file may go in the same step.
Remove(n) ==
    /\ names[n] # 0
    /\ names' = [names EXCEPT ![n] = 0]
    /\ \/ UNCHANGED files
       \/ /\ \A m \in Names \ {n} : names[m] # names[n]
          /\ \A p \in Procs : names[n] \notin opened[p]
          /\ files' = [files EXCEPT ![names[n]] = NULL]
    /\ UNCHANGED opened

Rename(n1, n2) ==
    /\ names[n1] # 0 /\ names[n2] = 0
    /\ names' = [names EXCEPT ![n1] = 0, ![n2] = names[n1]]
    /\ UNCHANGED <<files, opened>>

\* Nobody can get at the file any more.
Vanish(f) ==
    /\ \A n \in Names : names[n] # f
    /\ \A p \in Procs : f \notin opened[p]
    /\ files' = [files EXCEPT ![f] = NULL]
    /\ UNCHANGED <<names, opened>>

\* A write may be short, when space runs out.
Write(p, f, off, len) ==
    /\ f \in opened[p]
    /\ \E n \in 1..len :
        files' = [files EXCEPT ![f] =
                    [size |-> IF @.size < off + n THEN off + n ELSE @.size,
                     bytes |-> @.bytes \cup off..(off + n - 1)]]
    /\ UNCHANGED <<names, opened>>

Truncate(p, f, len) ==
    /\ f \in opened[p]
    /\ files' = [files EXCEPT ![f] = [size |-> len, bytes |-> {b \in @.bytes : b < len}]]
    /\ UNCHANGED <<names, opened>>

\* The steps that change what is open, those that change one file, and those
\* that change the names.
Next ==
    \/ /\ UNCHANGED <<names, files>>
       /\ \E p \in Procs : (\E n \in Names : Open(p, n)) \/ (\E f \in Ids : Close(p, f))
    \/ /\ UNCHANGED <<names, opened>>
       /\ \E f \in Ids :
            /\ files[f] # files'[f]
            /\ \/ Vanish(f)
               \/ \E p \in Procs :
                    \/ \E w \in Writes : Write(p, f, w[1], w[2])
                    \/ \E len \in Lengths : Truncate(p, f, len)
    \/ /\ names # names'
       /\ \/ \E n \in Names : Remove(n) \/ (\E p \in Procs : Create(p, n))
          \/ \E n \in Names : \E f \in Ids : Link(n, f)
          \/ \E n1, n2 \in Names : Rename(n1, n2)

Spec == Init /\ [][Next]_vars

=============================================================================
