--------------------------- MODULE AbstractFiles ----------------------------
(***************************************************************************)
(* What the file system promises its users: a file is a sequence of words,   *)
(* a name leads to one file for ever, a write past the end fills the gap    *)
(* with zeros, and each open description has an offset of its own.         *)
(***************************************************************************)
EXTENDS Integers, Sequences

CONSTANTS Name, File, Desc, Flags, Lens, Content(_, _, _), Closed

VARIABLES dir,     \* [the names that exist -> their files]
          files,   \* [the files that exist -> their contents]
          descs    \* [Desc -> an open description or Closed]

Init == dir = <<>> /\ files = <<>> /\ descs = [o \in Desc |-> Closed]

OpenAs(o, f, flags) ==
  descs' = [descs EXCEPT ![o] = [pos |-> f, offset |-> 0,
                                 readable |-> "WRONLY" \notin flags,
                                 writable |-> flags # {}]]

OpenExisting(o, name, flags) ==
  /\ descs[o] = Closed
  /\ name \in DOMAIN dir
  /\ OpenAs(o, dir[name], flags)
  /\ files' = IF "CREATE" \in flags \/ "TRUNC" \in flags
              THEN [files EXCEPT ![dir[name]] = <<>>] ELSE files
  /\ UNCHANGED dir

OpenNew(o, name, flags) ==
  /\ "CREATE" \in flags
  /\ descs[o] = Closed
  /\ name \notin DOMAIN dir
  /\ \E f \in File \ DOMAIN files :
       /\ OpenAs(o, f, flags)
       /\ dir' = [n \in DOMAIN dir \union {name} |-> IF n = name THEN f ELSE dir[n]]
       /\ files' = [g \in DOMAIN files \union {f} |-> IF g = f THEN <<>> ELSE files[g]]

\* A read is short only at the end of the file.
Read(o, len) ==
  /\ descs[o].readable
  /\ \A p \in Desc \ {o} : descs'[p] = descs[p]
  /\ LET left == Len(files[descs[o].pos]) - descs[o].offset
         got  == IF left < 0 THEN 0 ELSE IF left < len THEN left ELSE len
     IN  descs' = [descs EXCEPT ![o].offset = @ + got]
  /\ UNCHANGED <<dir, files>>

Overwrite(s, offset, buf) ==
  LET end == offset + Len(buf) IN
  [i \in 1..(IF end < Len(s) THEN Len(s) ELSE end) |->
     IF i > offset /\ i <= end THEN buf[i - offset] ELSE IF i <= Len(s) THEN s[i] ELSE 0]

Write(o, len) ==
  /\ descs[o].writable
  /\ descs' = [descs EXCEPT ![o].offset = @ + len]
  /\ files' = [files EXCEPT ![descs[o].pos] =
                 Overwrite(@, descs[o].offset, Content(o, descs[o].offset, len))]
  /\ UNCHANGED dir

Close(o) ==
  /\ descs' = [descs EXCEPT ![o] = Closed]
  /\ UNCHANGED <<dir, files>>

Reboot ==
  /\ descs' = [o \in Desc |-> Closed]
  /\ UNCHANGED <<dir, files>>

Next ==
  \/ \E o \in Desc : Close(o)
  \/ Reboot
  \/ \E o \in Desc, name \in Name, flags \in Flags :
       OpenExisting(o, name, flags) \/ OpenNew(o, name, flags)
  \/ \E o \in Desc, len \in Lens : Write(o, len) \/ Read(o, len)

Spec == Init /\ [][Next]_<<dir, files, descs>>
=============================================================================
