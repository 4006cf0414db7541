--------------------------- MODULE InstallProofs ---------------------------
(* Proofs about Install, for any installs, names, binaries and files. *)
EXTENDS Install, TLAPS

-----------------------------------------------------------------------------
(***************************************************************************)
(* The inductive invariant behind InstalledIsVerified, by parts.           *)
(***************************************************************************)

\* A file is at one path at most.
PathInv ==
    /\ \A n \in Names : temp[n] # NoFile => file[temp[n]].used
    /\ \A n \in Names : target[n] # NoFile => file[target[n]].used
    /\ \A n, m \in Names : temp[n] = temp[m] /\ temp[n] # NoFile => n = m
    /\ \A n, m \in Names : target[n] = target[m] /\ target[n] # NoFile => n = m
    /\ \A n, m \in Names : temp[n] = target[m] => temp[n] = NoFile

\* What x writes to is at no path of another name.
OpenInv(x) ==
    /\ inst[x].pc \in {"none", "get", "create"} => inst[x].off = 0
    /\ inst[x].pc = "copy" =>
          /\ file[inst[x].fd].used
          /\ \A n \in Names : inst[x].fd \in {temp[n], target[n]} => n = NameOf[x]
    /\ inst[x].pc = "copyfile" =>
          /\ file[inst[x].dst].used
          /\ \A n \in Names : inst[x].dst # temp[n]
          /\ \A n \in Names : inst[x].dst = target[n] => n = NameOf[x]

\* An install that no other of its name has overlapped has the temporary file to itself,
\* and has written there what it should.
AloneInv(x) ==
    Working(x) /\ inst[x].alone =>
        LET n == NameOf[x]  i == inst[x].fd  IN
        /\ \A y \in Installs : Working(y) /\ NameOf[y] = n => y = x
        /\ inst[x].pc # "remove" => temp[n] = i
        /\ inst[x].pc = "copy" /\ inst[x].intact =>
              \A b \in 1 .. inst[x].off : file[i].data[b] = ArtifactOf[x]
        /\ inst[x].pc \in {"chmod", "rename", "copyfile"} => Holds(i, ArtifactOf[x])
        /\ inst[x].pc \in {"rename", "copyfile"} => file[i].exec
        /\ inst[x].pc = "copyfile" =>
              /\ target[n] = inst[x].dst
              /\ \A b \in 1 .. inst[x].off : file[inst[x].dst].data[b] = ArtifactOf[x]

\* Whoever overlaps with another, or copies, taints its name.
TaintInv(x) ==
    /\ Working(x) /\ ~inst[x].alone => tainted[NameOf[x]]
    /\ inst[x].pc = "copyfile" => tainted[NameOf[x]]

IInv ==
    /\ TypeOK
    /\ PathInv
    /\ InstalledIsVerified
    /\ \A x \in Installs : OpenInv(x) /\ AloneInv(x) /\ TaintInv(x)

(***************************************************************************)
(* Type correctness.                                                       *)
(***************************************************************************)

LEMMA GotoTyped ==
    ASSUME TypeOK, NEW x \in Installs,
           NEW p \in {"none", "get", "create", "ok", "failed", "left", "lost"} \cup WorkPcs, Goto(x, p)
    PROVE  inst' \in [Installs -> InstallRecords]
<1>1. [inst[x] EXCEPT !.pc = p] \in InstallRecords
  BY DEF TypeOK, InstallRecords
<1> QED BY <1>1 DEF TypeOK, Goto

LEMMA EndedTyped ==
    ASSUME TypeOK, NEW x \in Installs, NEW p \in {"remove", "lost"}, NEW e \in BOOLEAN
    PROVE  Ended(inst[x], p, e) \in InstallRecords
<1>1. 0 \in 0 .. Blocks
  BY InstallAssumption
<1>2. inst[x] \in InstallRecords
  BY DEF TypeOK
<1> QED BY <1>1, <1>2 DEF InstallRecords, WorkPcs, Ended

LEMMA AbandonTyped ==
    ASSUME TypeOK, NEW x \in Installs, Abandon(x)
    PROVE  inst' \in [Installs -> InstallRecords]
<1>1. Ended(inst[x], "remove", TRUE) \in InstallRecords
  BY EndedTyped
<1> QED BY <1>1 DEF TypeOK, Abandon

LEMMA InstalledTyped ==
    ASSUME TypeOK, NEW x \in Installs, Installed(x)
    PROVE  inst' \in [Installs -> InstallRecords]
<1>1. Ended(inst[x], "remove", FALSE) \in InstallRecords
  BY EndedTyped
<1> QED BY <1>1 DEF TypeOK, Installed

LEMMA OpenedTyped ==
    ASSUME TypeOK, NEW i \in Inodes
    PROVE  Opened(i) \in [Inodes -> FileRecords]
<1>1. Empty \in [1 .. Blocks -> Artifacts \cup {Bad}]
  BY DEF Empty
<1>2. [data |-> Empty, exec |-> file[i].exec, used |-> TRUE] \in FileRecords
  BY <1>1 DEF TypeOK, FileRecords
<1> QED BY <1>2 DEF TypeOK, Opened

LEMMA OpenableTyped ==
    ASSUME NEW p \in Inodes \cup {NoFile}, NEW i \in Openable(p)
    PROVE  i \in Inodes /\ (i = p \/ ~file[i].used)
BY DEF Openable

\* An execution bit set or cleared.
LEMMA ExecTyped ==
    ASSUME TypeOK, NEW i \in Inodes, NEW e \in BOOLEAN
    PROVE  [file EXCEPT ![i].exec = e] \in [Inodes -> FileRecords]
<1>1. [file[i] EXCEPT !.exec = e] \in FileRecords
  BY DEF TypeOK, FileRecords
<1> QED BY <1>1 DEF TypeOK

\* A block written.
LEMMA DataTyped ==
    ASSUME TypeOK, NEW i \in Inodes, NEW b \in 1 .. Blocks, NEW d \in Artifacts \cup {Bad}
    PROVE  [file EXCEPT ![i].data[b] = d] \in [Inodes -> FileRecords]
<1>1. file[i].data \in [1 .. Blocks -> Artifacts \cup {Bad}]
  BY DEF TypeOK, FileRecords
<1>2. [file[i].data EXCEPT ![b] = d] \in [1 .. Blocks -> Artifacts \cup {Bad}]
  BY <1>1
<1>3. file[i] \in FileRecords
  BY DEF TypeOK
<1>4. [file[i] EXCEPT !.data = [file[i].data EXCEPT ![b] = d]] \in FileRecords
  BY <1>2, <1>3 DEF FileRecords
<1>5. [file EXCEPT ![i] = [file[i] EXCEPT !.data = [file[i].data EXCEPT ![b] = d]]]
         \in [Inodes -> FileRecords]
  BY <1>4 DEF TypeOK
<1>6. [file EXCEPT ![i].data[b] = d]
        = [file EXCEPT ![i] = [file[i] EXCEPT !.data = [file[i].data EXCEPT ![b] = d]]]
  OBVIOUS
<1> QED BY <1>5, <1>6

LEMMA NextBlock ==
    ASSUME TypeOK, NEW x \in Installs, inst[x].off < Blocks
    PROVE  inst[x].off + 1 \in 1 .. Blocks /\ inst[x].off \in Nat
BY InstallAssumption DEF TypeOK, InstallRecords

LEMMA FieldTypes ==
    ASSUME TypeOK, NEW x \in Installs
    PROVE  /\ NameOf[x] \in Names
           /\ ArtifactOf[x] \in Artifacts
           /\ inst[x] \in InstallRecords
           /\ inst[x].fd \in Inodes
           /\ inst[x].dst \in Inodes
           /\ inst[x].off \in 0 .. Blocks
           /\ inst[x].alone \in BOOLEAN
           /\ temp[NameOf[x]] \in Inodes \cup {NoFile}
           /\ target[NameOf[x]] \in Inodes \cup {NoFile}
BY InstallAssumption DEF TypeOK, InstallRecords

LEMMA InitTyped == Init => TypeOK
<1> SUFFICES ASSUME Init PROVE TypeOK
  OBVIOUS
<1>1. AnInode \in Inodes
  BY InstallAssumption DEF AnInode
<1>2. Empty \in [1 .. Blocks -> Artifacts \cup {Bad}]
  BY DEF Empty
<1>3. [data |-> Empty, exec |-> FALSE, used |-> FALSE] \in FileRecords
  BY <1>2 DEF FileRecords
<1>4. file \in [Inodes -> FileRecords]
  BY <1>3 DEF Init
<1>5. [pc |-> "none", fd |-> AnInode, dst |-> AnInode, off |-> 0, intact |-> TRUE,
       err |-> FALSE, alone |-> FALSE] \in InstallRecords
  BY <1>1, InstallAssumption DEF InstallRecords
<1>6. inst \in [Installs -> InstallRecords]
  BY <1>5 DEF Init
<1>7. /\ temp \in [Names -> Inodes \cup {NoFile}]
      /\ target \in [Names -> Inodes \cup {NoFile}]
      /\ tainted \in [Names -> BOOLEAN]
  BY DEF Init
<1>8. crashes \in 0 .. MaxCrashes
  BY InstallAssumption DEF Init
<1> QED BY <1>4, <1>6, <1>7, <1>8 DEF TypeOK

LEMMA StepTyped ==
    ASSUME TypeOK, NEW x \in Installs, InstallStep(x)
    PROVE  TypeOK'
<1> USE FieldTypes
<1>1. CASE Begin(x)
  BY <1>1, GotoTyped DEF Begin, TypeOK, WorkPcs
<1>2. CASE Get(x)
  BY <1>2, GotoTyped DEF Get, TypeOK, WorkPcs
<1>3. CASE Create(x)
  <2>1. PICK i \in Openable(temp[NameOf[x]]) :
          /\ file' = Opened(i)
          /\ temp' = [temp EXCEPT ![NameOf[x]] = i]
          /\ inst' = [y \in Installs |->
                CASE y = x         -> [inst[x] EXCEPT !.pc = "copy", !.fd = i, !.alone = (Others(x) = {})]
                  [] y \in Others(x) -> [inst[y] EXCEPT !.alone = FALSE]
                  [] OTHER         -> inst[y]]
    BY <1>3 DEF Create
  <2>2. i \in Inodes
    BY <2>1, OpenableTyped
  <2>3. [inst[x] EXCEPT !.pc = "copy", !.fd = i, !.alone = (Others(x) = {})] \in InstallRecords
    BY <2>2 DEF InstallRecords, WorkPcs
  <2>4. \A y \in Installs : [inst[y] EXCEPT !.alone = FALSE] \in InstallRecords
    BY DEF InstallRecords, TypeOK
  <2>5. \A y \in Installs : inst[y] \in InstallRecords
    BY DEF TypeOK
  <2>6. inst' \in [Installs -> InstallRecords]
    BY <2>1, <2>3, <2>4, <2>5
  <2>7. file' \in [Inodes -> FileRecords]
    BY <2>1, <2>2, OpenedTyped
  <2>8. temp' \in [Names -> Inodes \cup {NoFile}]
    BY <2>1, <2>2 DEF TypeOK
  <2>9. (tainted[NameOf[x]] \/ Others(x) # {}) \in BOOLEAN
    OBVIOUS
  <2>10. tainted' \in [Names -> BOOLEAN]
    BY <1>3, <2>9 DEF TypeOK, Create
  <2> QED BY <1>3, <2>6, <2>7, <2>8, <2>10 DEF TypeOK, Create
<1>4. CASE CreateFails(x)
  BY <1>4, GotoTyped DEF CreateFails, TypeOK
<1>5. CASE Write(x)
  <2>1. PICK block \in {ArtifactOf[x], Bad} :
          /\ file' = [file EXCEPT ![inst[x].fd].data[inst[x].off + 1] = block]
          /\ inst' = [inst EXCEPT ![x].off = @ + 1,
                                  ![x].intact = @ /\ block = ArtifactOf[x]]
    BY <1>5 DEF Write
  <2>2. inst[x].off + 1 \in 1 .. Blocks /\ inst[x].off \in Nat
    BY <1>5, NextBlock DEF Write
  <2>3. inst[x].off + 1 \in 0 .. Blocks
    BY <2>2, InstallAssumption
  <2>4. (inst[x].intact /\ block = ArtifactOf[x]) \in BOOLEAN
    OBVIOUS
  <2>5. [inst[x] EXCEPT !.off = @ + 1, !.intact = @ /\ block = ArtifactOf[x]] \in InstallRecords
    BY <2>3, <2>4 DEF InstallRecords
  <2>6. inst' = [inst EXCEPT ![x] = [inst[x] EXCEPT !.off = @ + 1,
                                                  !.intact = @ /\ block = ArtifactOf[x]]]
    BY <2>1
  <2>8. inst' \in [Installs -> InstallRecords]
    BY <2>5, <2>6 DEF TypeOK
  <2>7. file' \in [Inodes -> FileRecords]
    BY <2>1, <2>2, DataTyped
  <2> QED BY <1>5, <2>7, <2>8 DEF TypeOK, Write
<1>6. CASE Verify(x)
  BY <1>6, GotoTyped DEF Verify, TypeOK, WorkPcs
<1>7. CASE VerifyFails(x)
  BY <1>7, AbandonTyped DEF VerifyFails, TypeOK
<1>8. CASE Chmod(x)
  <2>1. inst' \in [Installs -> InstallRecords]
    BY <1>8, GotoTyped, AbandonTyped DEF Chmod, WorkPcs
  <2>2. file' \in [Inodes -> FileRecords]
    <3>1. CASE file' = file
      BY <3>1 DEF TypeOK
    <3>2. CASE file' # file
      <4>1. /\ temp[NameOf[x]] \in Inodes
            /\ file' = [file EXCEPT ![temp[NameOf[x]]].exec = TRUE]
        BY <1>8, <3>2 DEF Chmod
      <4> QED BY <4>1, ExecTyped
    <3> QED BY <3>1, <3>2
  <2> QED BY <1>8, <2>1, <2>2 DEF TypeOK, Chmod
<1>9. CASE Rename(x)
  <2>1. inst' \in [Installs -> InstallRecords]
    BY <1>9, InstalledTyped DEF Rename
  <2>2. (tainted[NameOf[x]] /\ ~inst[x].alone) \in BOOLEAN
    OBVIOUS
  <2>3. tainted' \in [Names -> BOOLEAN]
    BY <1>9, <2>2 DEF TypeOK, Rename
  <2> QED BY <1>9, <2>1, <2>3 DEF TypeOK, Rename
<1>10. CASE RenameFails(x)
  BY <1>10, AbandonTyped DEF RenameFails, TypeOK
<1>11. CASE CopyStart(x)
  <2>1. PICK i \in Openable(target[NameOf[x]]) :
          /\ file' = Opened(i)
          /\ target' = [target EXCEPT ![NameOf[x]] = i]
          /\ inst' = [inst EXCEPT ![x] = [@ EXCEPT !.pc = "copyfile", !.off = 0,
                                          !.fd = temp[NameOf[x]], !.dst = i]]
    BY <1>11 DEF CopyStart
  <2>2. i \in Inodes
    BY <2>1, OpenableTyped
  <2>3. temp[NameOf[x]] \in Inodes
    BY <1>11 DEF CopyStart
  <2> DEFINE r == [inst[x] EXCEPT !.pc = "copyfile", !.off = 0, !.fd = temp[NameOf[x]], !.dst = i]
  <2> HIDE FieldTypes
  <2>11. inst[x] \in InstallRecords
    BY FieldTypes
  <2>10. 0 \in 0 .. Blocks
    BY InstallAssumption
  <2>4. r \in InstallRecords
    BY <2>2, <2>3, <2>10, <2>11 DEF InstallRecords, WorkPcs
  <2>5. inst' \in [Installs -> InstallRecords]
    BY <2>1, <2>4 DEF TypeOK
  <2>6. file' \in [Inodes -> FileRecords]
    BY <2>1, <2>2, OpenedTyped
  <2>7. target' \in [Names -> Inodes \cup {NoFile}] /\ tainted' \in [Names -> BOOLEAN]
    BY <1>11, <2>1, <2>2 DEF TypeOK, CopyStart
  <2> QED BY <1>11, <2>5, <2>6, <2>7 DEF TypeOK, CopyStart
<1>12. CASE CopyBlock(x)
  <2>1. inst[x].off + 1 \in 1 .. Blocks /\ inst[x].off \in Nat
    BY <1>12, NextBlock DEF CopyBlock
  <2>2. [inst[x] EXCEPT !.off = @ + 1] \in InstallRecords
    BY <2>1, InstallAssumption DEF InstallRecords
  <2>3. inst' \in [Installs -> InstallRecords]
    BY <1>12, <2>2 DEF CopyBlock, TypeOK
  <2>6. file[inst[x].fd] \in FileRecords
    <3>1. inst[x].fd \in Inodes
      BY FieldTypes
    <3> HIDE FieldTypes
    <3> QED BY <3>1 DEF TypeOK
  <2>7. file[inst[x].fd].data \in [1 .. Blocks -> Artifacts \cup {Bad}]
    BY <2>6 DEF FileRecords
  <2>4. file[inst[x].fd].data[inst[x].off + 1] \in Artifacts \cup {Bad}
    BY <2>1, <2>7
  <2>5. file' \in [Inodes -> FileRecords]
    BY <1>12, <2>1, <2>4, DataTyped DEF CopyBlock
  <2> QED BY <1>12, <2>3, <2>5 DEF TypeOK, CopyBlock
<1>13. CASE CopyEnd(x)
  <2>1. inst' \in [Installs -> InstallRecords]
    BY <1>13, InstalledTyped DEF CopyEnd
  <2>2. file[temp[NameOf[x]]].exec \in BOOLEAN
    BY <1>13 DEF CopyEnd, TypeOK, FileRecords
  <2>3. CASE target[NameOf[x]] \in Inodes
    <3>1. file' \in [Inodes -> FileRecords]
      BY <1>13, <2>2, <2>3, ExecTyped DEF CopyEnd
    <3> QED BY <1>13, <2>1, <3>1 DEF TypeOK, CopyEnd
  <2>4. CASE target[NameOf[x]] = NoFile
    <3>1. file' = file
      BY <1>13, <2>4, InstallAssumption DEF CopyEnd, TypeOK
    <3> QED BY <1>13, <2>1, <3>1 DEF TypeOK, CopyEnd
  <2> QED BY <2>3, <2>4
<1>14. CASE CopyFails(x)
  BY <1>14, AbandonTyped DEF CopyFails, TypeOK
<1>15. CASE Remove(x)
  <2>1. inst' \in [Installs -> InstallRecords]
    BY <1>15, GotoTyped DEF Remove
  <2> QED BY <1>15, <2>1 DEF TypeOK, Remove, Removed
<1>16. CASE RemoveFails(x)
  BY <1>16, GotoTyped DEF RemoveFails, TypeOK
<1> QED BY <1>1, <1>2, <1>3, <1>4, <1>5, <1>6, <1>7, <1>8, <1>9, <1>10, <1>11, <1>12,
           <1>13, <1>14, <1>15, <1>16 DEF InstallStep

LEMMA CrashTyped ==
    ASSUME TypeOK, Crash
    PROVE  TypeOK'
<1>1. \A x \in Installs : /\ Ended(inst[x], "lost", FALSE) \in InstallRecords
                          /\ inst[x] \in InstallRecords
  BY EndedTyped DEF TypeOK
<1>2. inst' \in [Installs -> InstallRecords]
  BY <1>1 DEF Crash
<1>3. crashes' \in 0 .. MaxCrashes
  BY InstallAssumption DEF Crash, TypeOK
<1> QED BY <1>2, <1>3 DEF TypeOK, Crash

LEMMA NextTyped == TypeOK /\ [Next]_vars => TypeOK'
<1>1. CASE UNCHANGED vars
  BY <1>1 DEF TypeOK, vars
<1> QED BY <1>1, StepTyped, CrashTyped DEF Next

\* The files, paths and requests stay well typed, for any numbers of them.
THEOREM TypeCorrect == Spec => []TypeOK
BY InitTyped, NextTyped, PTL DEF Spec

(***************************************************************************)
(* What the updates do, field by field.                                    *)
(***************************************************************************)

\* What x keeps in a step that changes its pc only, or ends its writes.
Keeps(x) ==
    /\ inst'[x].fd = inst[x].fd
    /\ inst'[x].dst = inst[x].dst
    /\ inst'[x].pc # "remove" =>
          inst'[x].off = inst[x].off /\ inst'[x].intact = inst[x].intact
    /\ inst'[x].alone = inst[x].alone

OnlyOf(x) == \A y \in Installs \ {x} : inst'[y] = inst[y]

LEMMA GotoFields ==
    ASSUME TypeOK, NEW x \in Installs, NEW p, Goto(x, p)
    PROVE  OnlyOf(x) /\ Keeps(x) /\ inst'[x].pc = p
<1>1. inst[x] \in InstallRecords
  BY DEF TypeOK
<1>2. inst' = [inst EXCEPT ![x] = [inst[x] EXCEPT !.pc = p]]
  BY DEF Goto
<1>3. inst'[x] = [inst[x] EXCEPT !.pc = p] /\ \A y \in Installs \ {x} : inst'[y] = inst[y]
  BY <1>2 DEF TypeOK
<1> QED BY <1>1, <1>3 DEF OnlyOf, Keeps, InstallRecords, Ended

LEMMA AbandonFields ==
    ASSUME TypeOK, NEW x \in Installs, Abandon(x)
    PROVE  OnlyOf(x) /\ Keeps(x) /\ inst'[x].pc = "remove"
<1>1. inst[x] \in InstallRecords
  BY DEF TypeOK
<1>3. inst'[x] = Ended(inst[x], "remove", TRUE)
        /\ \A y \in Installs \ {x} : inst'[y] = inst[y]
  BY DEF TypeOK, Abandon
<1> QED BY <1>1, <1>3 DEF OnlyOf, Keeps, InstallRecords, Ended

LEMMA InstalledFields ==
    ASSUME TypeOK, NEW x \in Installs, Installed(x)
    PROVE  OnlyOf(x) /\ Keeps(x) /\ inst'[x].pc = "remove"
<1>1. inst[x] \in InstallRecords
  BY DEF TypeOK
<1>3. inst'[x] = Ended(inst[x], "remove", FALSE)
        /\ \A y \in Installs \ {x} : inst'[y] = inst[y]
  BY DEF TypeOK, Installed
<1> QED BY <1>1, <1>3 DEF OnlyOf, Keeps, InstallRecords, Ended

\* The permission of a file set.
Moded(i, e) == [file EXCEPT ![i].exec = e]

LEMMA ExecFields ==
    ASSUME TypeOK, NEW i \in Inodes, NEW e, file' = Moded(i, e)
    PROVE  \A j \in Inodes : /\ file'[j].data = file[j].data
                             /\ file'[j].used = file[j].used
                             /\ file'[j].exec = IF j = i THEN e ELSE file[j].exec
<1>1. file[i] \in FileRecords
  BY DEF TypeOK
<1>2. file'[i] = [file[i] EXCEPT !.exec = e] /\ \A j \in Inodes \ {i} : file'[j] = file[j]
  BY DEF TypeOK, Moded
<1>3. file'[i].data = file[i].data /\ file'[i].used = file[i].used /\ file'[i].exec = e
  BY <1>1, <1>2 DEF FileRecords
<1> QED BY <1>2, <1>3

\* A block of a file written.
Wrote(i, b, d) == [file EXCEPT ![i].data[b] = d]

LEMMA DataFields ==
    ASSUME TypeOK, NEW i \in Inodes, NEW b \in 1 .. Blocks, NEW d, file' = Wrote(i, b, d)
    PROVE  \A j \in Inodes :
              /\ file'[j].used = file[j].used
              /\ file'[j].exec = file[j].exec
              /\ \A c \in 1 .. Blocks :
                    file'[j].data[c] = IF j = i /\ c = b THEN d ELSE file[j].data[c]
<1>1. file[i] \in FileRecords
  BY DEF TypeOK
<1>2. file'[i] = [file[i] EXCEPT !.data = [file[i].data EXCEPT ![b] = d]]
        /\ \A j \in Inodes \ {i} : file'[j] = file[j]
  BY DEF TypeOK, Wrote
<1>3. file'[i].data = [file[i].data EXCEPT ![b] = d]
        /\ file'[i].used = file[i].used /\ file'[i].exec = file[i].exec
  BY <1>1, <1>2 DEF FileRecords
<1>4. file[i].data \in [1 .. Blocks -> Artifacts \cup {Bad}]
  BY <1>1 DEF FileRecords
<1>5. \A c \in 1 .. Blocks : file'[i].data[c] = IF c = b THEN d ELSE file[i].data[c]
  BY <1>3, <1>4
<1> QED BY <1>2, <1>3, <1>5

LEMMA OpenedFields ==
    ASSUME TypeOK, NEW i \in Inodes, file' = Opened(i)
    PROVE  /\ \A j \in Inodes \ {i} : file'[j] = file[j]
           /\ file'[i].used
BY DEF TypeOK, Opened

(***************************************************************************)
(* The invariant, action by action.                                        *)
(***************************************************************************)

Steady ==
    /\ PathInv
    /\ InstalledIsVerified
    /\ \A x \in Installs : OpenInv(x) /\ AloneInv(x) /\ TaintInv(x)

LEMMA PathTypes ==
    ASSUME TypeOK, NEW n \in Names
    PROVE  /\ temp[n] # NoFile => temp[n] \in Inodes
           /\ target[n] # NoFile => target[n] \in Inodes
BY DEF TypeOK

\* A step of x that changes nothing of the files.
LEMMA Quiet ==
    ASSUME TypeOK, Steady, NEW x \in Installs, OnlyOf(x), Keeps(x),
           UNCHANGED <<temp, target, file, tainted>>,
           \/ inst'[x].pc \in {"ok", "failed", "left", "lost"}
           \/ inst'[x].pc \in {"get", "create"} /\ inst[x].pc \in {"none", "get"}
           \/ inst'[x].pc = "remove" /\ Working(x)
           \/ inst'[x].pc = "chmod" /\ inst[x].pc = "copy" /\ ChecksumMatches(x)
    PROVE  Steady'
<1>1. PathInv' /\ InstalledIsVerified'
  BY DEF Steady, PathInv, InstalledIsVerified, IsBinary, Holds
<1>2. \A y \in Installs : Working(y)' => Working(y) /\ inst'[y].alone = inst[y].alone
  BY DEF OnlyOf, Keeps, Working, WorkPcs
<1>3. ASSUME NEW y \in Installs
      PROVE  (OpenInv(y) /\ AloneInv(y) /\ TaintInv(y))'
  <2>1. OpenInv(y) /\ AloneInv(y) /\ TaintInv(y)
    BY DEF Steady
  <2>2. CASE y # x
    <3>1. inst'[y] = inst[y]
      BY <2>2 DEF OnlyOf
    <3>2. OpenInv(y)' /\ TaintInv(y)'
      BY <2>1, <3>1 DEF OpenInv, TaintInv, Working
    <3>3. AloneInv(y)'
      BY <1>2, <2>1, <3>1 DEF AloneInv, Working, Holds
    <3> QED BY <3>2, <3>3
  <2>3. CASE y = x
    <3>1. OpenInv(x)' /\ TaintInv(x)'
      BY <2>1, <2>3, <1>2 DEF OpenInv, TaintInv, Keeps, Working, WorkPcs
    <3>2. AloneInv(x)'
      BY <1>2, <2>1, <2>3 DEF AloneInv, Working, WorkPcs, Holds, Keeps, ChecksumMatches
    <3> QED BY <2>3, <3>1, <3>2
  <2> QED BY <2>2, <2>3
<1> QED BY <1>1, <1>3 DEF Steady

LEMMA CreateSteady ==
    ASSUME TypeOK, Steady, NEW x \in Installs, Create(x)
    PROVE  Steady'
<1> DEFINE n == NameOf[x]
<1>1. PICK i \in Openable(temp[n]) :
        /\ file' = Opened(i)
        /\ temp' = [temp EXCEPT ![n] = i]
        /\ inst' = [y \in Installs |->
              CASE y = x         -> [inst[x] EXCEPT !.pc = "copy", !.fd = i, !.alone = (Others(x) = {})]
                [] y \in Others(x) -> [inst[y] EXCEPT !.alone = FALSE]
                [] OTHER         -> inst[y]]
  BY DEF Create
<1>2. n \in Names /\ temp[n] \in Inodes \cup {NoFile}
  BY FieldTypes
<1>3. i \in Inodes /\ (i = temp[n] \/ ~file[i].used)
  BY <1>1, <1>2, OpenableTyped
<1>4. /\ temp'[n] = i
      /\ \A m \in Names \ {n} : temp'[m] = temp[m]
      /\ target' = target
      /\ inst[x].pc = "create"
      /\ tainted' = [tainted EXCEPT ![n] = @ \/ Others(x) # {}]
  BY <1>1, <1>2 DEF TypeOK, Create
<1>5. file'[i].used /\ \A j \in Inodes \ {i} : file'[j] = file[j]
  BY <1>1, <1>3, OpenedFields
<1>6. /\ inst'[x].pc = "copy"
      /\ inst'[x].fd = i
      /\ inst'[x].alone = (Others(x) = {})
      /\ inst'[x].off = inst[x].off
  <2>3. x \notin Others(x)
    BY DEF Others
  <2>1. inst'[x] = [inst[x] EXCEPT !.pc = "copy", !.fd = i, !.alone = (Others(x) = {})]
    BY <1>1, <2>3
  <2>2. inst[x] \in InstallRecords
    BY DEF TypeOK
  <2> QED BY <2>1, <2>2 DEF InstallRecords
<1>7. ASSUME NEW y \in Others(x)
      PROVE  /\ inst'[y].pc = inst[y].pc /\ inst'[y].fd = inst[y].fd
             /\ inst'[y].dst = inst[y].dst /\ inst'[y].off = inst[y].off
             /\ ~inst'[y].alone
  <2>1. y \in Installs /\ y # x
    BY DEF Others
  <2>2. inst'[y] = [inst[y] EXCEPT !.alone = FALSE]
    BY <1>1, <2>1
  <2>3. inst[y] \in InstallRecords
    BY <2>1 DEF TypeOK
  <2> QED BY <2>2, <2>3 DEF InstallRecords
<1>8. \A y \in Installs : y # x /\ y \notin Others(x) => inst'[y] = inst[y]
  BY <1>1
<1>9. \A m \in Names : target[m] # i
  BY <1>2, <1>3, InstallAssumption DEF Steady, PathInv
<1>10. \A m \in Names : temp[m] = i => m = n
  BY <1>2, <1>3, InstallAssumption DEF Steady, PathInv
<1>11. PathInv'
  <2>1. \A m \in Names : temp'[m] # NoFile => file'[temp'[m]].used
    BY <1>3, <1>4, <1>5, <1>10, PathTypes DEF Steady, PathInv
  <2>2. \A m \in Names : target'[m] # NoFile => file'[target'[m]].used
    BY <1>4, <1>5, <1>9, PathTypes DEF Steady, PathInv
  <2> HIDE DEF n
  <2>3. \A m, k \in Names : temp'[m] = temp'[k] /\ temp'[m] # NoFile => m = k
    BY <1>4, <1>10 DEF Steady, PathInv
  <2>4. \A m, k \in Names : temp'[m] = target'[k] => temp'[m] = NoFile
    BY <1>4, <1>9 DEF Steady, PathInv
  <2>5. \A m, k \in Names : target'[m] = target'[k] /\ target'[m] # NoFile => m = k
    BY <1>4 DEF Steady, PathInv
  <2> QED BY <2>1, <2>2, <2>3, <2>4, <2>5 DEF PathInv
<1>12. \A m \in Names : tainted[m] => tainted'[m]
  BY <1>2, <1>4 DEF TypeOK
<1>13. InstalledIsVerified'
  <2> SUFFICES ASSUME NEW m \in Names, ~tainted'[m], target'[m] # NoFile
               PROVE  IsBinary(target[m])'
    BY DEF InstalledIsVerified
  <2>1. IsBinary(target[m]) /\ target[m] \in Inodes \ {i}
    BY <1>4, <1>9, <1>12, PathTypes DEF Steady, InstalledIsVerified
  <2> QED BY <1>4, <1>5, <2>1 DEF IsBinary, Holds
<1>14. \A y \in Others(x) : y \in Installs /\ NameOf[y] = n /\ Working(y) /\ y # x
  BY DEF Others
<1>15. Others(x) # {} => tainted'[n]
  BY <1>2, <1>4 DEF TypeOK
<1>16. \A y \in Installs : y # x => /\ inst'[y].pc = inst[y].pc /\ inst'[y].fd = inst[y].fd
                                    /\ inst'[y].dst = inst[y].dst /\ inst'[y].off = inst[y].off
                                    /\ inst'[y].alone => inst[y].alone
  BY <1>7, <1>8
<1>17. ASSUME NEW y \in Installs
       PROVE  OpenInv(y)'
  <2>1. OpenInv(y)
    BY DEF Steady
  <2>2. CASE y = x
    BY <1>3, <1>4, <1>5, <1>6, <1>9, <1>10, <2>2 DEF OpenInv
  <2>3. CASE y # x
    <3>1. inst[y].fd \in Inodes /\ inst[y].dst \in Inodes
      BY FieldTypes
    <3>2. (inst[y].pc \in {"none", "get", "create"} => inst[y].off = 0)'
      BY <1>16, <2>1, <2>3 DEF OpenInv
    <3>3. ASSUME inst'[y].pc = "copy"
          PROVE  /\ file'[inst'[y].fd].used
                 /\ \A m \in Names : inst'[y].fd \in {temp'[m], target'[m]} => m = NameOf[y]
      <4>1. /\ file[inst[y].fd].used
            /\ \A m \in Names : inst[y].fd \in {temp[m], target[m]} => m = NameOf[y]
            /\ inst'[y].fd = inst[y].fd
        BY <1>16, <2>1, <2>3, <3>3 DEF OpenInv
      <4>2. file'[inst'[y].fd].used
        BY <1>5, <3>1, <4>1
      <4>3. inst[y].fd = i => i = temp[n]
        BY <1>3, <4>1
      <4> HIDE DEF n
      <4>4. \A m \in Names : inst'[y].fd \in {temp'[m], target'[m]} => m = NameOf[y]
        BY <1>2, <1>4, <4>1, <4>3
      <4> QED BY <4>2, <4>4
    <3>4. ASSUME inst'[y].pc = "copyfile"
          PROVE  /\ file'[inst'[y].dst].used
                 /\ \A m \in Names : inst'[y].dst # temp'[m]
                 /\ \A m \in Names : inst'[y].dst = target'[m] => m = NameOf[y]
      <4>1. /\ file[inst[y].dst].used
            /\ \A m \in Names : inst[y].dst # temp[m]
            /\ \A m \in Names : inst[y].dst = target[m] => m = NameOf[y]
            /\ inst'[y].dst = inst[y].dst
        BY <1>16, <2>1, <2>3, <3>4 DEF OpenInv
      <4>2. file'[inst'[y].dst].used
        BY <1>5, <3>1, <4>1
      <4>3. inst[y].dst # i
        BY <1>2, <1>3, <4>1
      <4> HIDE DEF n
      <4>4. \A m \in Names : inst'[y].dst # temp'[m]
        BY <1>2, <1>4, <4>1, <4>3
      <4> QED BY <1>4, <4>1, <4>2, <4>4
    <3> QED BY <3>2, <3>3, <3>4 DEF OpenInv
  <2> QED BY <2>2, <2>3
<1>18. ASSUME NEW y \in Installs
       PROVE  TaintInv(y)'
  <2>1. TaintInv(y)
    BY DEF Steady
  <2>2. CASE y = x
    BY <1>6, <1>15, <2>2 DEF TaintInv
  <2>3. CASE y \in Others(x)
    BY <1>14, <1>15, <2>3 DEF TaintInv
  <2>4. CASE y # x /\ y \notin Others(x)
    BY <1>8, <1>12, <2>1, <2>4, FieldTypes DEF TaintInv, Working
  <2> QED BY <2>2, <2>3, <2>4
<1>19. ASSUME NEW y \in Installs
       PROVE  AloneInv(y)'
  <2> SUFFICES ASSUME Working(y)', inst'[y].alone
               PROVE  AloneInv(y)'
    BY DEF AloneInv
  <2>1. CASE y = x
    <3>1. Others(x) = {} /\ inst[x].off = 0
      BY <1>4, <1>6, <2>1 DEF Steady, OpenInv
    <3>2. \A z \in Installs : Working(z)' /\ NameOf[z] = n => z = x
      BY <1>16, <3>1 DEF Others, Working
    <3>3. \A b \in 1 .. inst'[x].off : FALSE
      BY <1>6, <3>1
    <3> QED BY <1>4, <1>6, <2>1, <3>2, <3>3 DEF AloneInv
  <2>2. CASE y # x
    <3>1. y \notin Others(x)
      BY <1>7
    <3>2. inst'[y] = inst[y] /\ Working(y) /\ AloneInv(y)
      BY <1>8, <2>2, <3>1 DEF Working, Steady
    <3>3. NameOf[y] # n
      BY <2>2, <3>1, <3>2 DEF Others
    <3>4. /\ NameOf[y] \in Names
          /\ temp'[NameOf[y]] = temp[NameOf[y]]
          /\ target'[NameOf[y]] = target[NameOf[y]]
          /\ inst[y].fd \in Inodes
          /\ inst[y].dst \in Inodes
      BY <1>4, <3>3, FieldTypes
    <3>5. \A z \in Installs : Working(z)' /\ NameOf[z] = NameOf[y] => z = y
      BY <1>16, <3>2, <3>3 DEF AloneInv, Working
    <3>6. CASE inst[y].pc = "remove"
      BY <3>2, <3>5, <3>6 DEF AloneInv
    <3>7. CASE inst[y].pc # "remove"
      <4>1. inst[y].fd = temp[NameOf[y]] /\ inst[y].fd # i
        BY <1>10, <3>2, <3>3, <3>4, <3>7 DEF AloneInv
      <4>2. inst[y].pc = "copyfile" => inst[y].dst # i
        BY <1>9, <3>2, <3>4 DEF AloneInv
      <4>3. /\ file'[inst[y].fd] = file[inst[y].fd]
            /\ inst[y].pc = "copyfile" => file'[inst[y].dst] = file[inst[y].dst]
        BY <1>5, <3>4, <4>1, <4>2
      <4> QED BY <3>2, <3>4, <3>5, <4>1, <4>3 DEF AloneInv, Holds
    <3> QED BY <3>6, <3>7
  <2> QED BY <2>1, <2>2
<1> QED BY <1>11, <1>13, <1>17, <1>18, <1>19 DEF Steady

\* What an install other than x keeps, whatever happens to the files, if what it has
\* written, or its name's paths, are not touched.
LEMMA OtherAlone ==
    ASSUME TypeOK, Steady, NEW x \in Installs, NEW y \in Installs, y # x, OnlyOf(x),
           Working(x)' => Working(x),
           NameOf[y] # NameOf[x] =>
              /\ temp'[NameOf[y]] = temp[NameOf[y]]
              /\ target'[NameOf[y]] = target[NameOf[y]]
              /\ \A p \in {temp[NameOf[y]], target[NameOf[y]]} : p # NoFile =>
                    /\ \A b \in 1 .. Blocks : file'[p].data[b] = file[p].data[b]
                    /\ file[p].exec => file'[p].exec,
           NameOf[y] = NameOf[x] => Working(x)
    PROVE  AloneInv(y)'
<1> SUFFICES ASSUME Working(y)', inst'[y].alone
             PROVE  AloneInv(y)'
  BY DEF AloneInv
<1>1. inst'[y] = inst[y] /\ Working(y) /\ AloneInv(y)
  BY DEF OnlyOf, Working, Steady
<1>2. NameOf[y] # NameOf[x]
  BY <1>1 DEF AloneInv
<1>3. \A z \in Installs : Working(z)' /\ NameOf[z] = NameOf[y] => z = y
  BY <1>1, <1>2 DEF AloneInv, Working, OnlyOf
<1>4. inst[y].fd \in Inodes /\ inst[y].dst \in Inodes /\ inst[y].off \in 0 .. Blocks
  BY FieldTypes
<1>5. CASE inst[y].pc = "remove"
  BY <1>1, <1>3, <1>5 DEF AloneInv
<1>6. CASE inst[y].pc # "remove"
  <2>1. /\ temp[NameOf[y]] = inst[y].fd /\ temp[NameOf[y]] # NoFile
        /\ inst[y].pc = "copyfile" => target[NameOf[y]] = inst[y].dst /\ target[NameOf[y]] # NoFile
    BY <1>1, <1>4, <1>6, InstallAssumption DEF AloneInv
  <2>2. /\ \A b \in 1 .. Blocks : file'[inst[y].fd].data[b] = file[inst[y].fd].data[b]
        /\ file[inst[y].fd].exec => file'[inst[y].fd].exec
        /\ inst[y].pc = "copyfile" =>
              \A b \in 1 .. Blocks : file'[inst[y].dst].data[b] = file[inst[y].dst].data[b]
    BY <1>2, <2>1
  <2>3. \A b \in 1 .. inst[y].off : b \in 1 .. Blocks
    BY <1>4, InstallAssumption
  <2>4. /\ inst'[y].pc = "copy" /\ inst'[y].intact =>
              \A b \in 1 .. inst'[y].off : file'[inst'[y].fd].data[b] = ArtifactOf[y]
        /\ inst'[y].pc = "copyfile" =>
              \A b \in 1 .. inst'[y].off : file'[inst'[y].dst].data[b] = ArtifactOf[y]
    BY <1>1, <2>2, <2>3 DEF AloneInv
  <2>5. inst'[y].pc \in {"chmod", "rename", "copyfile"} => Holds(inst[y].fd, ArtifactOf[y])'
    BY <1>1, <2>2 DEF AloneInv, Holds
  <2>6. inst'[y].pc \in {"rename", "copyfile"} => file'[inst'[y].fd].exec
    BY <1>1, <2>2 DEF AloneInv
  <2>7. /\ inst'[y].pc # "remove" => temp'[NameOf[y]] = inst'[y].fd
        /\ inst'[y].pc = "copyfile" => target'[NameOf[y]] = inst'[y].dst
    BY <1>1, <1>2, <2>1
  <2> QED BY <1>1, <1>3, <2>4, <2>5, <2>6, <2>7 DEF AloneInv
<1> QED BY <1>5, <1>6

\* What a step of x leaves of the others if it taints no name less.
LEMMA OtherTaint ==
    ASSUME TypeOK, Steady, NEW x \in Installs, NEW y \in Installs, y # x, OnlyOf(x),
           tainted[NameOf[y]] => tainted'[NameOf[y]]
    PROVE  TaintInv(y)'
BY DEF Steady, TaintInv, OnlyOf, Working

LEMMA OtherOpen ==
    ASSUME TypeOK, Steady, NEW x \in Installs, NEW y \in Installs, y # x, OnlyOf(x),
           UNCHANGED <<temp, target>>, \A i \in Inodes : file[i].used => file'[i].used
    PROVE  OpenInv(y)'
<1>1. inst'[y] = inst[y] /\ OpenInv(y)
  BY DEF OnlyOf, Steady
<1>2. inst[y].fd \in Inodes /\ inst[y].dst \in Inodes
  BY FieldTypes
<1> QED BY <1>1, <1>2 DEF OpenInv

LEMMA SamePaths ==
    ASSUME TypeOK, Steady, UNCHANGED <<temp, target>>,
           \A i \in Inodes : file[i].used => file'[i].used
    PROVE  PathInv'
<1>1. /\ \A n \in Names : temp[n] # NoFile => temp[n] \in Inodes
      /\ \A n \in Names : target[n] # NoFile => target[n] \in Inodes
  BY PathTypes
<1> QED BY <1>1 DEF Steady, PathInv

LEMMA WriteSteady ==
    ASSUME TypeOK, Steady, NEW x \in Installs, Write(x)
    PROVE  Steady'
<1> DEFINE n == NameOf[x]
           c == inst[x].off + 1
           fd == inst[x].fd
<1>1. PICK block \in {ArtifactOf[x], Bad} :
        /\ file' = [file EXCEPT ![inst[x].fd].data[inst[x].off + 1] = block]
        /\ inst' = [inst EXCEPT ![x].off = @ + 1,
                                ![x].intact = @ /\ block = ArtifactOf[x]]
  BY DEF Write
<1>2. /\ c \in 1 .. Blocks /\ inst[x].off \in Nat /\ inst[x].pc = "copy"
      /\ UNCHANGED <<temp, target, tainted>>
  BY NextBlock DEF Write
<1>3. n \in Names /\ fd \in Inodes /\ ArtifactOf[x] # Bad /\ inst[x] \in InstallRecords
  BY FieldTypes, InstallAssumption
<1>4. OnlyOf(x)
  BY <1>1 DEF OnlyOf, TypeOK
<1>5. /\ inst'[x].pc = "copy" /\ inst'[x].fd = fd /\ inst'[x].alone = inst[x].alone
      /\ inst'[x].off = c /\ inst'[x].intact = (inst[x].intact /\ block = ArtifactOf[x])
  BY <1>1, <1>2, <1>3 DEF TypeOK, InstallRecords
<1>6. \A j \in Inodes :
        /\ file'[j].used = file[j].used
        /\ file'[j].exec = file[j].exec
        /\ \A b \in 1 .. Blocks :
              file'[j].data[b] = IF j = fd /\ b = c THEN block ELSE file[j].data[b]
  <2>1. file' = Wrote(fd, c, block)
    BY <1>1 DEF Wrote
  <2> HIDE DEF fd, c
  <2> QED BY <1>2, <1>3, <2>1, DataFields
<1>7. OpenInv(x) /\ AloneInv(x) /\ TaintInv(x) /\ Working(x)
  BY <1>2 DEF Steady, Working, WorkPcs
<1>8. \A m \in Names : fd \in {temp[m], target[m]} => m = n
  BY <1>2, <1>7 DEF OpenInv
<1>9. PathInv'
  BY <1>2, <1>6, SamePaths
<1>10. \A m \in Names : ~tainted[m] /\ target[m] # NoFile => target[m] # fd
  <2> SUFFICES ASSUME NEW m \in Names, ~tainted[m], target[m] = fd, fd # NoFile
               PROVE  FALSE
    OBVIOUS
  <2>1. m = n
    BY <1>8
  <2>2. inst[x].alone
    BY <1>7, <2>1, FieldTypes DEF TaintInv
  <2>3. temp[n] = fd
    BY <1>2, <1>7, <2>2 DEF AloneInv
  <2> QED BY <1>3, <2>1, <2>3 DEF Steady, PathInv
<1>11. InstalledIsVerified'
  <2> SUFFICES ASSUME NEW m \in Names, ~tainted[m], target[m] # NoFile
               PROVE  IsBinary(target[m])'
    BY <1>2 DEF InstalledIsVerified
  <2>1. IsBinary(target[m]) /\ target[m] \in Inodes \ {fd}
    BY <1>10, PathTypes DEF Steady, InstalledIsVerified
  <2>2. /\ file'[target[m]].exec = file[target[m]].exec
        /\ \A b \in 1 .. Blocks : file'[target[m]].data[b] = file[target[m]].data[b]
    BY <1>6, <2>1
  <2> QED BY <1>2, <2>1, <2>2 DEF IsBinary, Holds
<1>12. ASSUME NEW y \in Installs
       PROVE  OpenInv(y)' /\ TaintInv(y)'
  <2>1. CASE y = x
    BY <1>2, <1>3, <1>5, <1>6, <1>7, <2>1 DEF OpenInv, TaintInv, Working, WorkPcs
  <2>2. CASE y # x
    BY <1>2, <1>4, <1>6, <2>2, OtherOpen, OtherTaint
  <2> QED BY <2>1, <2>2
<1>13. ASSUME NEW y \in Installs
       PROVE  AloneInv(y)'
  <2>1. CASE y = x
    <3> SUFFICES ASSUME inst[x].alone
                 PROVE  AloneInv(x)'
      BY <1>5, <2>1 DEF AloneInv
    <3>1. \A z \in Installs : Working(z)' /\ NameOf[z] = n => z = x
      BY <1>4, <1>7 DEF AloneInv, Working, OnlyOf
    <3>2. temp'[n] = inst'[x].fd
      BY <1>2, <1>5, <1>7 DEF AloneInv
    <3>3. ASSUME inst'[x].intact, NEW b \in 1 .. inst'[x].off
          PROVE  file'[inst'[x].fd].data[b] = ArtifactOf[x]
      <4>1. inst[x].intact /\ block = ArtifactOf[x]
        BY <1>5, <3>3
      <4>2. b \in 1 .. Blocks
        BY <1>2, <1>5, InstallAssumption
      <4>3. CASE b = c
        BY <1>3, <1>5, <1>6, <4>1, <4>2, <4>3
      <4>4. CASE b # c
        <5>1. b \in 1 .. inst[x].off
          BY <1>2, <1>5, <4>4
        <5>2. file[fd].data[b] = ArtifactOf[x]
          BY <1>2, <1>7, <4>1, <5>1 DEF AloneInv
        <5> QED BY <1>3, <1>5, <1>6, <4>2, <4>4, <5>2
      <4> QED BY <4>3, <4>4
    <3> QED BY <1>5, <2>1, <3>1, <3>2, <3>3 DEF AloneInv
  <2>2. CASE y # x
    <3>1. ASSUME NameOf[y] # n, NEW p \in {temp[NameOf[y]], target[NameOf[y]]}, p # NoFile
          PROVE  /\ \A b \in 1 .. Blocks : file'[p].data[b] = file[p].data[b]
                 /\ file[p].exec => file'[p].exec
      <4>1. p \in Inodes \ {fd}
        BY <1>8, <3>1, FieldTypes
      <4> QED BY <1>6, <4>1
    <3>2. Working(x)
      BY <1>7
    <3> QED BY <1>2, <1>4, <2>2, <3>1, <3>2, OtherAlone
  <2> QED BY <2>1, <2>2
<1> QED BY <1>9, <1>11, <1>12, <1>13 DEF Steady

LEMMA ChmodSteady ==
    ASSUME TypeOK, Steady, NEW x \in Installs, Chmod(x)
    PROVE  Steady'
<1> DEFINE n == NameOf[x]
           i == temp[n]
<1>1. inst[x].pc = "chmod" /\ Working(x) /\ UNCHANGED <<temp, target, tainted>>
  BY DEF Chmod, Working, WorkPcs
<1>2. CASE UNCHANGED file /\ Abandon(x)
  BY <1>1, <1>2, AbandonFields, Quiet
<1>3. CASE i # NoFile /\ file' = [file EXCEPT ![i].exec = TRUE] /\ Goto(x, "rename")
  <2>1. i \in Inodes /\ n \in Names
    BY <1>3, FieldTypes
  <2>2. \A j \in Inodes : /\ file'[j].data = file[j].data
                          /\ file'[j].used = file[j].used
                          /\ file'[j].exec = IF j = i THEN TRUE ELSE file[j].exec
    <3>1. file' = Moded(i, TRUE)
      BY <1>3 DEF Moded
    <3> HIDE DEF i
    <3> QED BY <2>1, <3>1, ExecFields
  <2>3. OnlyOf(x) /\ Keeps(x) /\ inst'[x].pc = "rename"
    BY <1>3, GotoFields
  <2>4. PathInv'
    BY <1>1, <2>2, SamePaths
  <2>5. InstalledIsVerified'
    <3> SUFFICES ASSUME NEW m \in Names, ~tainted[m], target[m] # NoFile
                 PROVE  IsBinary(target[m])'
      BY <1>1 DEF InstalledIsVerified
    <3>1. IsBinary(target[m]) /\ target[m] \in Inodes
      BY PathTypes DEF Steady, InstalledIsVerified
    <3>2. /\ file'[target[m]].data = file[target[m]].data
          /\ file[target[m]].exec => file'[target[m]].exec
      BY <2>2, <3>1
    <3> QED BY <1>1, <3>1, <3>2 DEF IsBinary, Holds
  <2>6. ASSUME NEW y \in Installs, y # x
        PROVE  OpenInv(y)' /\ TaintInv(y)' /\ AloneInv(y)'
    <3>1. OpenInv(y)' /\ TaintInv(y)'
      BY <1>1, <2>2, <2>3, <2>6, OtherOpen, OtherTaint
    <3>2. ASSUME NEW p \in {temp[NameOf[y]], target[NameOf[y]]}, p # NoFile
          PROVE  /\ \A b \in 1 .. Blocks : file'[p].data[b] = file[p].data[b]
                 /\ file[p].exec => file'[p].exec
      <4>1. p \in Inodes
        BY <3>2, FieldTypes
      <4>2. file'[p].data = file[p].data /\ (file[p].exec => file'[p].exec)
        BY <2>2, <4>1
      <4> QED BY <4>2
    <3>3. AloneInv(y)'
      BY <1>1, <2>3, <2>6, <3>2, OtherAlone
    <3> QED BY <3>1, <3>3
  <2>7. OpenInv(x)' /\ TaintInv(x)'
    BY <1>1, <2>3 DEF OpenInv, TaintInv, Working, WorkPcs, Keeps, Steady
  <2>8. AloneInv(x)'
    <3> SUFFICES ASSUME inst[x].alone
                 PROVE  AloneInv(x)'
      BY <2>3 DEF AloneInv, Keeps
    <3>1. AloneInv(x)
      BY DEF Steady
    <3>2. i = inst[x].fd /\ Holds(i, ArtifactOf[x])
      BY <1>1, <3>1 DEF AloneInv
    <3>3. \A z \in Installs : Working(z)' /\ NameOf[z] = n => z = x
      BY <1>1, <2>3, <3>1 DEF AloneInv, Working, OnlyOf
    <3>4. Holds(i, ArtifactOf[x])' /\ file'[i].exec
      BY <1>1, <2>1, <2>2, <3>2 DEF Holds
    <3> QED BY <1>1, <2>3, <3>2, <3>3, <3>4 DEF AloneInv, Keeps, Holds
  <2> QED BY <2>4, <2>5, <2>6, <2>7, <2>8 DEF Steady
<1> QED BY <1>2, <1>3 DEF Chmod

LEMMA RenameSteady ==
    ASSUME TypeOK, Steady, NEW x \in Installs, Rename(x)
    PROVE  Steady'
<1> DEFINE n == NameOf[x]
           i == temp[n]
<1>1. /\ inst[x].pc = "rename" /\ Working(x) /\ file' = file
      /\ i # NoFile /\ i \in Inodes /\ n \in Names
  BY FieldTypes DEF Rename, Working, WorkPcs
<1>2. /\ target'[n] = i /\ temp'[n] = NoFile
      /\ \A m \in Names \ {n} : target'[m] = target[m] /\ temp'[m] = temp[m]
  BY <1>1 DEF Rename, TypeOK
<1>3. /\ tainted'[n] = (tainted[n] /\ ~inst[x].alone)
      /\ \A m \in Names \ {n} : tainted'[m] = tainted[m]
  BY <1>1 DEF Rename, TypeOK
<1>4. OnlyOf(x) /\ Keeps(x) /\ inst'[x].pc = "remove"
  BY InstalledFields DEF Rename
<1>5. AloneInv(x) /\ OpenInv(x) /\ TaintInv(x)
  BY DEF Steady
<1>6. \A y \in Installs : y # x /\ NameOf[y] = n /\ Working(y) => ~inst[x].alone
  BY <1>1, <1>5 DEF AloneInv
<1>7. PathInv'
  <2>1. \A m \in Names : target[m] # i
    BY <1>1 DEF Steady, PathInv
  <2>2. \A m \in Names : temp[m] = i => m = n
    BY <1>1 DEF Steady, PathInv
  <2>3. file[i].used
    BY <1>1 DEF Steady, PathInv
  <2> HIDE DEF i, n
  <2>4. /\ \A m \in Names : temp'[m] # NoFile => file'[temp'[m]].used
        /\ \A m \in Names : target'[m] # NoFile => file'[target'[m]].used
    BY <1>1, <1>2, <2>3 DEF Steady, PathInv
  <2>5. \A m, k \in Names : temp'[m] = temp'[k] /\ temp'[m] # NoFile => m = k
    BY <1>2 DEF Steady, PathInv
  <2>6. \A m, k \in Names : target'[m] = target'[k] /\ target'[m] # NoFile => m = k
    BY <1>2, <2>1 DEF Steady, PathInv
  <2>7. \A m, k \in Names : temp'[m] = target'[k] => temp'[m] = NoFile
    BY <1>2, <2>2 DEF Steady, PathInv
  <2> QED BY <2>4, <2>5, <2>6, <2>7 DEF PathInv
<1>8. InstalledIsVerified'
  <2> SUFFICES ASSUME NEW m \in Names, ~tainted'[m], target'[m] # NoFile
               PROVE  IsBinary(target[m])'
    BY DEF InstalledIsVerified
  <2>1. CASE m # n
    BY <1>1, <1>2, <1>3, <2>1 DEF Steady, InstalledIsVerified, IsBinary, Holds
  <2>2. CASE m = n
    <3>1. inst[x].alone
      BY <1>1, <1>3, <1>5, <2>2, FieldTypes DEF TaintInv
    <3>2. i = inst[x].fd /\ Holds(i, ArtifactOf[x]) /\ file[i].exec
      BY <1>1, <1>5, <3>1 DEF AloneInv
    <3> QED BY <1>1, <1>2, <2>2, <3>2, FieldTypes DEF IsBinary, Holds
  <2> QED BY <2>1, <2>2
<1>9. ASSUME NEW y \in Installs
      PROVE  OpenInv(y)'
  <2>1. CASE y = x
    BY <1>4, <2>1 DEF OpenInv
  <2>2. CASE y # x
    <3>1. inst'[y] = inst[y] /\ OpenInv(y)
      BY <1>4, <2>2 DEF OnlyOf, Steady
    <3>2. inst[y].fd \in Inodes /\ inst[y].dst \in Inodes
      BY FieldTypes
    <3>3. \A m \in Names : inst[y].fd \in {temp'[m], target'[m]} =>
              inst[y].fd \in {temp[m], target[m]}
      BY <1>1, <1>2, <3>2, InstallAssumption
    <3>4. inst[y].pc = "copyfile" => \A m \in Names : inst[y].dst # temp'[m]
      BY <1>1, <1>2, <3>1, <3>2, InstallAssumption DEF OpenInv
    <3>5. inst[y].pc = "copyfile" => \A m \in Names : inst[y].dst = target'[m] => m = NameOf[y]
      BY <1>1, <1>2, <3>1 DEF OpenInv
    <3> QED BY <1>1, <3>1, <3>3, <3>4, <3>5 DEF OpenInv
  <2> QED BY <2>1, <2>2
<1>10. ASSUME NEW y \in Installs
       PROVE  TaintInv(y)'
  <2>1. CASE y = x
    BY <1>1, <1>3, <1>4, <1>5, <2>1 DEF TaintInv, Keeps
  <2>2. CASE y # x
    <3>1. inst'[y] = inst[y] /\ TaintInv(y)
      BY <1>4, <2>2 DEF OnlyOf, Steady
    <3>2. CASE NameOf[y] # n
      BY <1>3, <3>1, <3>2, FieldTypes DEF TaintInv, Working
    <3>3. CASE NameOf[y] = n
      BY <1>3, <1>6, <2>2, <3>1, <3>3 DEF TaintInv, Working, WorkPcs
    <3> QED BY <3>2, <3>3
  <2> QED BY <2>1, <2>2
<1>11. ASSUME NEW y \in Installs
       PROVE  AloneInv(y)'
  <2>1. CASE y = x
    <3>1. \A z \in Installs : inst[x].alone /\ Working(z)' /\ NameOf[z] = n => z = x
      BY <1>4, <1>6 DEF Working, OnlyOf
    <3> QED BY <1>4, <2>1, <3>1 DEF AloneInv, Keeps
  <2>2. CASE y # x
    <3>1. NameOf[y] # n => temp'[NameOf[y]] = temp[NameOf[y]] /\ target'[NameOf[y]] = target[NameOf[y]]
      BY <1>2, FieldTypes
    <3> QED BY <1>1, <1>4, <2>2, <3>1, OtherAlone
  <2> QED BY <2>1, <2>2
<1> QED BY <1>7, <1>8, <1>9, <1>10, <1>11 DEF Steady

LEMMA CopyStartSteady ==
    ASSUME TypeOK, Steady, NEW x \in Installs, CopyStart(x)
    PROVE  Steady'
<1> DEFINE n == NameOf[x]
<1>1. PICK i \in Openable(target[n]) :
        /\ file' = Opened(i)
        /\ target' = [target EXCEPT ![n] = i]
        /\ inst' = [inst EXCEPT ![x] = [@ EXCEPT !.pc = "copyfile", !.off = 0,
                                        !.fd = temp[n], !.dst = i]]
  BY DEF CopyStart
<1>2. /\ n \in Names /\ target[n] \in Inodes \cup {NoFile} /\ temp[n] \in Inodes
      /\ inst[x].pc = "rename" /\ Working(x) /\ temp' = temp
  BY FieldTypes DEF CopyStart, Working, WorkPcs
<1>3. i \in Inodes /\ (i = target[n] \/ ~file[i].used)
  BY <1>1, <1>2, OpenableTyped
<1>4. target'[n] = i /\ \A m \in Names \ {n} : target'[m] = target[m]
  BY <1>1, <1>2 DEF TypeOK
<1>5. file'[i].used /\ \A j \in Inodes \ {i} : file'[j] = file[j]
  BY <1>1, <1>3, OpenedFields
<1>6. OnlyOf(x)
  BY <1>1 DEF OnlyOf, TypeOK
<1>7. /\ inst'[x].pc = "copyfile" /\ inst'[x].off = 0 /\ inst'[x].fd = temp[n]
      /\ inst'[x].dst = i /\ inst'[x].alone = inst[x].alone
  <2>1. inst'[x] = [inst[x] EXCEPT !.pc = "copyfile", !.off = 0, !.fd = temp[n], !.dst = i]
    BY <1>1 DEF TypeOK
  <2>2. inst[x] \in InstallRecords
    BY FieldTypes
  <2> QED BY <2>1, <2>2 DEF InstallRecords
<1>8. tainted'[n] /\ \A m \in Names \ {n} : tainted'[m] = tainted[m]
  BY <1>2 DEF CopyStart, TypeOK
<1>9. \A m \in Names : temp[m] # i
  BY <1>2, <1>3, InstallAssumption DEF Steady, PathInv
<1>10. \A m \in Names : target[m] = i => m = n
  BY <1>2, <1>3, InstallAssumption DEF Steady, PathInv
<1>11. PathInv'
  <2>1. /\ \A m \in Names : temp'[m] # NoFile => file'[temp'[m]].used
        /\ \A m \in Names : target'[m] # NoFile => file'[target'[m]].used
    BY <1>2, <1>4, <1>5, <1>9, <1>10, PathTypes DEF Steady, PathInv
  <2> HIDE DEF n
  <2>2. \A m, k \in Names : temp'[m] = temp'[k] /\ temp'[m] # NoFile => m = k
    BY <1>2 DEF Steady, PathInv
  <2>3. \A m, k \in Names : target'[m] = target'[k] /\ target'[m] # NoFile => m = k
    BY <1>4, <1>10 DEF Steady, PathInv
  <2>4. \A m, k \in Names : temp'[m] = target'[k] => temp'[m] = NoFile
    BY <1>2, <1>4, <1>9 DEF Steady, PathInv
  <2> QED BY <2>1, <2>2, <2>3, <2>4 DEF PathInv
<1>12. InstalledIsVerified'
  <2> SUFFICES ASSUME NEW m \in Names, ~tainted'[m], target'[m] # NoFile
               PROVE  IsBinary(target[m])'
    BY DEF InstalledIsVerified
  <2>1. m # n /\ target'[m] = target[m] /\ ~tainted[m]
    BY <1>4, <1>8
  <2>2. IsBinary(target[m]) /\ target[m] \in Inodes \ {i}
    BY <1>10, <2>1, PathTypes DEF Steady, InstalledIsVerified
  <2> QED BY <1>5, <2>1, <2>2 DEF IsBinary, Holds
<1>13. ASSUME NEW y \in Installs
       PROVE  OpenInv(y)'
  <2>1. CASE y = x
    BY <1>2, <1>4, <1>5, <1>7, <1>9, <1>10, <2>1 DEF OpenInv
  <2>2. CASE y # x
    <3>1. inst'[y] = inst[y] /\ OpenInv(y)
      BY <1>6, <2>2 DEF OnlyOf, Steady
    <3>2. inst[y].fd \in Inodes /\ inst[y].dst \in Inodes
      BY FieldTypes
    <3>3. ASSUME inst[y].pc = "copy"
          PROVE  /\ file'[inst[y].fd].used
                 /\ \A m \in Names : inst[y].fd \in {temp'[m], target'[m]} => m = NameOf[y]
      <4>1. file'[inst[y].fd].used
        BY <1>5, <3>1, <3>2, <3>3 DEF OpenInv
      <4>2. inst[y].fd = i => i = target[n]
        BY <1>3, <3>1, <3>3 DEF OpenInv
      <4> HIDE DEF n
      <4> QED BY <1>2, <1>4, <3>1, <3>3, <4>1, <4>2 DEF OpenInv
    <3>4. ASSUME inst[y].pc = "copyfile"
          PROVE  /\ file'[inst[y].dst].used
                 /\ \A m \in Names : inst[y].dst # temp'[m]
                 /\ \A m \in Names : inst[y].dst = target'[m] => m = NameOf[y]
      <4>1. file'[inst[y].dst].used
        BY <1>5, <3>1, <3>2, <3>4 DEF OpenInv
      <4>2. inst[y].dst = i => i = target[n]
        BY <1>3, <3>1, <3>4 DEF OpenInv
      <4> HIDE DEF n
      <4> QED BY <1>2, <1>4, <3>1, <3>4, <4>1, <4>2 DEF OpenInv
    <3> QED BY <3>1, <3>3, <3>4 DEF OpenInv
  <2> QED BY <2>1, <2>2
<1>14. ASSUME NEW y \in Installs
       PROVE  TaintInv(y)'
  <2>1. CASE y = x
    BY <1>8, <2>1 DEF TaintInv
  <2>2. CASE y # x
    <3>1. tainted[NameOf[y]] => tainted'[NameOf[y]]
      BY <1>8, FieldTypes
    <3> QED BY <1>6, <2>2, <3>1, OtherTaint
  <2> QED BY <2>1, <2>2
<1>15. ASSUME NEW y \in Installs
       PROVE  AloneInv(y)'
  <2>1. CASE y = x
    <3> SUFFICES ASSUME inst[x].alone
                 PROVE  AloneInv(x)'
      BY <1>7, <2>1 DEF AloneInv
    <3>1. AloneInv(x)
      BY DEF Steady
    <3>2. temp[n] = inst[x].fd /\ Holds(temp[n], ArtifactOf[x]) /\ file[temp[n]].exec
      BY <1>2, <3>1 DEF AloneInv
    <3>3. \A z \in Installs : Working(z)' /\ NameOf[z] = n => z = x
      BY <1>2, <1>6, <3>1 DEF AloneInv, Working, OnlyOf
    <3>4. file'[temp[n]] = file[temp[n]]
      BY <1>2, <1>5, <1>9
    <3>5. Holds(temp[n], ArtifactOf[x])'
      BY <1>2, <3>2, <3>4 DEF Holds
    <3>6. \A b \in 1 .. inst'[x].off : FALSE
      BY <1>7
    <3> QED BY <1>2, <1>4, <1>7, <3>2, <3>3, <3>4, <3>5, <3>6 DEF AloneInv, Holds
  <2>2. CASE y # x
    <3>1. NameOf[y] # n => temp'[NameOf[y]] = temp[NameOf[y]] /\ target'[NameOf[y]] = target[NameOf[y]]
      BY <1>2, <1>4, FieldTypes
    <3>2. ASSUME NameOf[y] # n, NEW p \in {temp[NameOf[y]], target[NameOf[y]]}, p # NoFile
          PROVE  /\ \A b \in 1 .. Blocks : file'[p].data[b] = file[p].data[b]
                 /\ file[p].exec => file'[p].exec
      <4>1. p \in Inodes \ {i}
        BY <1>9, <1>10, <3>2, FieldTypes
      <4> QED BY <1>5, <4>1
    <3> QED BY <1>2, <1>6, <2>2, <3>1, <3>2, OtherAlone
  <2> QED BY <2>1, <2>2
<1> QED BY <1>11, <1>12, <1>13, <1>14, <1>15 DEF Steady

LEMMA CopyBlockSteady ==
    ASSUME TypeOK, Steady, NEW x \in Installs, CopyBlock(x)
    PROVE  Steady'
<1> DEFINE n == NameOf[x]
           c == inst[x].off + 1
           dst == inst[x].dst
           d == file[inst[x].fd].data[c]
<1>1. /\ c \in 1 .. Blocks /\ inst[x].off \in Nat /\ inst[x].pc = "copyfile"
      /\ UNCHANGED <<temp, target, tainted>>
      /\ inst' = [inst EXCEPT ![x].off = @ + 1]
  BY NextBlock DEF CopyBlock
<1>2. n \in Names /\ dst \in Inodes /\ inst[x] \in InstallRecords
  BY FieldTypes
<1>3. OnlyOf(x)
  BY <1>1 DEF OnlyOf, TypeOK
<1>4. /\ inst'[x].pc = "copyfile" /\ inst'[x].fd = inst[x].fd /\ inst'[x].dst = dst
      /\ inst'[x].off = c /\ inst'[x].alone = inst[x].alone
  BY <1>1, <1>2 DEF TypeOK, InstallRecords
<1>5. \A j \in Inodes :
        /\ file'[j].used = file[j].used
        /\ file'[j].exec = file[j].exec
        /\ \A b \in 1 .. Blocks :
              file'[j].data[b] = IF j = dst /\ b = c THEN d ELSE file[j].data[b]
  <2>1. file' = Wrote(dst, c, d)
    BY DEF Wrote, CopyBlock
  <2> HIDE DEF dst, c, d
  <2> QED BY <1>1, <1>2, <2>1, DataFields
<1>6. OpenInv(x) /\ AloneInv(x) /\ TaintInv(x) /\ Working(x)
  BY <1>1 DEF Steady, Working, WorkPcs
<1>7. tainted[n] /\ \A m \in Names : dst # temp[m] /\ (dst = target[m] => m = n)
  BY <1>1, <1>6 DEF OpenInv, TaintInv
<1>8. PathInv'
  BY <1>1, <1>5, SamePaths
<1>9. InstalledIsVerified'
  <2> SUFFICES ASSUME NEW m \in Names, ~tainted[m], target[m] # NoFile
               PROVE  IsBinary(target[m])'
    BY <1>1 DEF InstalledIsVerified
  <2>1. IsBinary(target[m]) /\ target[m] \in Inodes \ {dst}
    BY <1>7, PathTypes DEF Steady, InstalledIsVerified
  <2>2. /\ file'[target[m]].exec = file[target[m]].exec
        /\ \A b \in 1 .. Blocks : file'[target[m]].data[b] = file[target[m]].data[b]
    BY <1>5, <2>1
  <2> QED BY <1>1, <2>1, <2>2 DEF IsBinary, Holds
<1>10. ASSUME NEW y \in Installs
       PROVE  OpenInv(y)' /\ TaintInv(y)'
  <2>1. CASE y = x
    BY <1>1, <1>2, <1>4, <1>5, <1>6, <2>1 DEF OpenInv, TaintInv
  <2>2. CASE y # x
    BY <1>1, <1>3, <1>5, <2>2, OtherOpen, OtherTaint
  <2> QED BY <2>1, <2>2
<1>11. ASSUME NEW y \in Installs
       PROVE  AloneInv(y)'
  <2>1. CASE y = x
    <3> SUFFICES ASSUME inst[x].alone
                 PROVE  AloneInv(x)'
      BY <1>4, <2>1 DEF AloneInv
    <3>1. \A z \in Installs : Working(z)' /\ NameOf[z] = n => z = x
      BY <1>3, <1>6 DEF AloneInv, Working, OnlyOf
    <3>2. /\ temp[n] = inst[x].fd /\ inst[x].fd \in Inodes \ {dst} /\ target[n] = dst
          /\ Holds(inst[x].fd, ArtifactOf[x]) /\ file[inst[x].fd].exec
      BY <1>1, <1>2, <1>6, <1>7, FieldTypes DEF AloneInv
    <3> DEFINE fd == inst[x].fd
    <3>5. /\ file'[fd].exec = file[fd].exec
          /\ \A b \in 1 .. Blocks : file'[fd].data[b] = file[fd].data[b]
      <4>1. fd \in Inodes /\ fd # dst
        BY <3>2
      <4> HIDE DEF dst, c, d, fd
      <4> QED BY <1>5, <4>1
    <3>3. Holds(inst[x].fd, ArtifactOf[x])' /\ file'[inst[x].fd].exec
      BY <1>4, <3>2, <3>5 DEF Holds
    <3>4. ASSUME NEW b \in 1 .. inst'[x].off
          PROVE  file'[inst'[x].dst].data[b] = ArtifactOf[x]
      <4>1. b \in 1 .. Blocks
        BY <1>1, <1>4, InstallAssumption
      <4>2. CASE b = c
        <5>1. d = ArtifactOf[x]
          BY <1>1, <3>2 DEF Holds
        <5> QED BY <1>2, <1>4, <1>5, <4>1, <4>2, <5>1
      <4>3. CASE b # c
        <5>1. b \in 1 .. inst[x].off
          BY <1>1, <1>4, <4>3
        <5>2. file[dst].data[b] = ArtifactOf[x]
          BY <1>1, <1>6, <5>1 DEF AloneInv
        <5> QED BY <1>2, <1>4, <1>5, <4>1, <4>3, <5>2
      <4> QED BY <4>2, <4>3
    <3> QED BY <1>1, <1>4, <2>1, <3>1, <3>2, <3>3, <3>4 DEF AloneInv, Holds
  <2>2. CASE y # x
    <3>1. ASSUME NameOf[y] # n, NEW p \in {temp[NameOf[y]], target[NameOf[y]]}, p # NoFile
          PROVE  /\ \A b \in 1 .. Blocks : file'[p].data[b] = file[p].data[b]
                 /\ file[p].exec => file'[p].exec
      <4>1. p \in Inodes \ {dst}
        BY <1>7, <3>1, FieldTypes
      <4> QED BY <1>5, <4>1
    <3>2. Working(x)
      BY <1>6
    <3> QED BY <1>1, <1>3, <2>2, <3>1, <3>2, OtherAlone
  <2> QED BY <2>1, <2>2
<1> QED BY <1>8, <1>9, <1>10, <1>11 DEF Steady

LEMMA CopyEndSteady ==
    ASSUME TypeOK, Steady, NEW x \in Installs, CopyEnd(x)
    PROVE  Steady'
<1> DEFINE n == NameOf[x]
           i == target[n]
           e == file[temp[n]].exec
<1>1. /\ inst[x].pc = "copyfile" /\ inst[x].off = Blocks /\ Working(x)
      /\ UNCHANGED <<temp, target>>
  BY DEF CopyEnd, Working, WorkPcs
<1>2. n \in Names /\ i \in Inodes \cup {NoFile}
  BY FieldTypes
<1>3. OnlyOf(x) /\ Keeps(x) /\ inst'[x].pc = "remove"
  BY InstalledFields DEF CopyEnd
<1>4. tainted'[n] = ~inst[x].alone /\ \A m \in Names \ {n} : tainted'[m] = tainted[m]
  BY <1>2 DEF CopyEnd, TypeOK
<1>5. OpenInv(x) /\ AloneInv(x) /\ TaintInv(x)
  BY DEF Steady
<1>6. \A j \in Inodes : /\ file'[j].data = file[j].data
                        /\ file'[j].used = file[j].used
                        /\ j # i => file'[j].exec = file[j].exec
                        /\ j = i => file'[j].exec = e
  <2>1. file' = Moded(i, e)
    BY DEF Moded, CopyEnd
  <2>2. CASE i \in Inodes
    <3> HIDE DEF i, e
    <3> QED BY <2>1, <2>2, ExecFields
  <2>3. CASE i = NoFile
    <3>1. file' = file
      BY <2>3, InstallAssumption DEF CopyEnd, TypeOK
    <3> QED BY <2>3, <3>1, InstallAssumption
  <2> QED BY <1>2, <2>2, <2>3
<1>7. PathInv'
  BY <1>1, <1>6, SamePaths
<1>8. \A m \in Names : m # n /\ target[m] # NoFile => target[m] # i
  BY <1>2 DEF Steady, PathInv
<1>9. \A m \in Names : temp[m] # NoFile => temp[m] # i
  BY <1>2 DEF Steady, PathInv
<1>10. \A y \in Installs : y # x /\ NameOf[y] = n /\ Working(y) => ~inst[x].alone
  BY <1>1, <1>5 DEF AloneInv
<1>11. InstalledIsVerified'
  <2> SUFFICES ASSUME NEW m \in Names, ~tainted'[m], target[m] # NoFile
               PROVE  IsBinary(target[m])'
    BY <1>1 DEF InstalledIsVerified
  <2>1. target[m] \in Inodes
    BY PathTypes
  <2>2. CASE m # n
    <3>1. IsBinary(target[m])
      BY <1>4, <2>2 DEF Steady, InstalledIsVerified
    <3>2. file'[target[m]].exec = file[target[m]].exec /\ file'[target[m]].data = file[target[m]].data
      BY <1>6, <1>8, <2>1, <2>2
    <3> QED BY <1>1, <3>1, <3>2 DEF IsBinary, Holds
  <2>3. CASE m = n
    <3>1. inst[x].alone
      BY <1>2, <1>4, <2>3, FieldTypes
    <3>2. /\ temp[n] = inst[x].fd /\ file[inst[x].fd].exec /\ target[n] = inst[x].dst
          /\ \A b \in 1 .. Blocks : file[inst[x].dst].data[b] = ArtifactOf[x]
      BY <1>1, <1>5, <3>1 DEF AloneInv
    <3>3. file'[i].exec /\ file'[i].data = file[i].data
      BY <1>6, <2>1, <2>3, <3>2
    <3> QED BY <1>1, <2>3, <3>2, <3>3, FieldTypes DEF IsBinary, Holds
  <2> QED BY <2>2, <2>3
<1>12. ASSUME NEW y \in Installs
       PROVE  OpenInv(y)' /\ TaintInv(y)'
  <2>1. CASE y = x
    BY <1>3, <1>4, <2>1 DEF OpenInv, TaintInv, Keeps
  <2>2. CASE y # x
    <3>1. OpenInv(y)'
      BY <1>1, <1>3, <1>6, <2>2, OtherOpen
    <3>2. inst'[y] = inst[y] /\ TaintInv(y)
      BY <1>3, <2>2 DEF OnlyOf, Steady
    <3>3. CASE NameOf[y] # n
      BY <1>4, <3>1, <3>2, <3>3, FieldTypes DEF TaintInv, Working
    <3>4. CASE NameOf[y] = n
      BY <1>4, <1>10, <2>2, <3>1, <3>2, <3>4 DEF TaintInv, Working, WorkPcs
    <3> QED BY <3>3, <3>4
  <2> QED BY <2>1, <2>2
<1>13. ASSUME NEW y \in Installs
       PROVE  AloneInv(y)'
  <2>1. CASE y = x
    <3>1. \A z \in Installs : inst[x].alone /\ Working(z)' /\ NameOf[z] = n => z = x
      BY <1>3, <1>10 DEF Working, OnlyOf
    <3> QED BY <1>3, <2>1, <3>1 DEF AloneInv, Keeps
  <2>2. CASE y # x
    <3>1. ASSUME NameOf[y] # n, NEW p \in {temp[NameOf[y]], target[NameOf[y]]}, p # NoFile
          PROVE  /\ \A b \in 1 .. Blocks : file'[p].data[b] = file[p].data[b]
                 /\ file[p].exec => file'[p].exec
      <4>1. p \in Inodes \ {i}
        BY <1>8, <1>9, <3>1, FieldTypes
      <4>2. file'[p].data = file[p].data /\ file'[p].exec = file[p].exec
        BY <1>6, <4>1
      <4> QED BY <4>2
    <3> QED BY <1>1, <1>3, <2>2, <3>1, OtherAlone
  <2> QED BY <2>1, <2>2
<1> QED BY <1>7, <1>11, <1>12, <1>13 DEF Steady

LEMMA RemoveSteady ==
    ASSUME TypeOK, Steady, NEW x \in Installs, Remove(x)
    PROVE  Steady'
<1> DEFINE n == NameOf[x]
<1>1. /\ inst[x].pc = "remove" /\ Working(x) /\ n \in Names
      /\ UNCHANGED <<target, file, tainted>>
  BY FieldTypes DEF Remove, Working, WorkPcs
<1>2. temp'[n] = NoFile /\ \A m \in Names \ {n} : temp'[m] = temp[m]
  BY <1>1 DEF Remove, Removed, TypeOK
<1>3. OnlyOf(x) /\ Keeps(x) /\ inst'[x].pc \in {"ok", "failed"}
  BY GotoFields DEF Remove
<1>4. PathInv'
  <2> HIDE DEF n
  <2> QED BY <1>1, <1>2 DEF Steady, PathInv
<1>5. InstalledIsVerified'
  BY <1>1 DEF Steady, InstalledIsVerified, IsBinary, Holds
<1>6. ASSUME NEW y \in Installs
      PROVE  (OpenInv(y) /\ TaintInv(y) /\ AloneInv(y))'
  <2>1. CASE y = x
    BY <1>3, <2>1 DEF OpenInv, TaintInv, AloneInv, Working, WorkPcs
  <2>2. CASE y # x
    <3>1. inst'[y] = inst[y] /\ OpenInv(y)
      BY <1>3, <2>2 DEF OnlyOf, Steady
    <3>2. inst[y].fd \in Inodes /\ inst[y].dst \in Inodes
      BY FieldTypes
    <3>3. \A m \in Names : temp'[m] \in {temp[m], NoFile}
      BY <1>2
    <3>4. OpenInv(y)'
      BY <1>1, <3>1, <3>2, <3>3, InstallAssumption DEF OpenInv
    <3>5. NameOf[y] # n => temp'[NameOf[y]] = temp[NameOf[y]]
      BY <1>2, FieldTypes
    <3>6. AloneInv(y)'
      BY <1>1, <1>3, <2>2, <3>5, OtherAlone
    <3> QED BY <1>1, <1>3, <2>2, <3>4, <3>6, OtherTaint
  <2> QED BY <2>1, <2>2
<1> QED BY <1>4, <1>5, <1>6 DEF Steady

LEMMA StepSteady ==
    ASSUME TypeOK, Steady, NEW x \in Installs, InstallStep(x)
    PROVE  Steady'
<1>1. CASE Begin(x) \/ Get(x) \/ CreateFails(x)
  <2>1. /\ UNCHANGED <<temp, target, file, tainted>>
        /\ inst[x].pc \in {"none", "get", "create"}
    BY <1>1 DEF Begin, Get, CreateFails
  <2>2. /\ OnlyOf(x) /\ Keeps(x)
        /\ \/ inst'[x].pc = "failed"
           \/ inst'[x].pc \in {"get", "create"} /\ inst[x].pc \in {"none", "get"}
    BY <1>1, GotoFields DEF Begin, Get, CreateFails
  <2> QED BY <2>1, <2>2, Quiet
<1>2. CASE Verify(x)
  <2>1. OnlyOf(x) /\ Keeps(x) /\ inst'[x].pc = "chmod"
    BY <1>2, GotoFields DEF Verify
  <2> QED BY <1>2, <2>1, Quiet DEF Verify
<1>3. CASE VerifyFails(x) \/ RenameFails(x) \/ CopyFails(x)
  <2>1. OnlyOf(x) /\ Keeps(x) /\ inst'[x].pc = "remove"
    BY <1>3, AbandonFields DEF VerifyFails, RenameFails, CopyFails
  <2>2. UNCHANGED <<temp, target, file, tainted>> /\ Working(x)
    BY <1>3 DEF VerifyFails, RenameFails, CopyFails, Working, WorkPcs
  <2> QED BY <2>1, <2>2, Quiet
<1>4. CASE RemoveFails(x)
  <2>1. OnlyOf(x) /\ Keeps(x) /\ inst'[x].pc = "left"
    BY <1>4, GotoFields DEF RemoveFails
  <2> QED BY <1>4, <2>1, Quiet DEF RemoveFails
<1> QED BY <1>1, <1>2, <1>3, <1>4, CreateSteady, WriteSteady, ChmodSteady, RenameSteady,
           CopyStartSteady, CopyBlockSteady, CopyEndSteady, RemoveSteady DEF InstallStep

LEMMA CrashSteady ==
    ASSUME TypeOK, Steady, Crash
    PROVE  Steady'
<1>1. UNCHANGED <<temp, target, file, tainted>>
  BY DEF Crash
<1>2. ASSUME NEW x \in Installs
      PROVE  inst'[x] = inst[x] \/ inst'[x].pc = "lost"
  <2>1. inst[x] \in InstallRecords
    BY FieldTypes
  <2> QED BY <2>1 DEF Crash, InstallRecords, Ended
<1>3. PathInv' /\ InstalledIsVerified'
  BY <1>1 DEF Steady, PathInv, InstalledIsVerified, IsBinary, Holds
<1>4. ASSUME NEW x \in Installs
      PROVE  (OpenInv(x) /\ TaintInv(x) /\ AloneInv(x))'
  <2>1. CASE inst'[x].pc = "lost"
    <3>1. ~Working(x)'
      BY <2>1 DEF Working, WorkPcs
    <3>2. AloneInv(x)'
      BY <3>1 DEF AloneInv
    <3>3. OpenInv(x)' /\ TaintInv(x)'
      BY <2>1, <3>1 DEF OpenInv, TaintInv
    <3> QED BY <3>2, <3>3
  <2>2. CASE inst'[x] = inst[x]
    <3>1. \A y \in Installs : Working(y)' => Working(y)
      BY <1>2 DEF Working, WorkPcs
    <3>2. OpenInv(x)' /\ TaintInv(x)'
      BY <1>1, <2>2 DEF Steady, OpenInv, TaintInv, Working
    <3>3. AloneInv(x)'
      BY <1>1, <2>2, <3>1 DEF Steady, AloneInv, Working, Holds
    <3> QED BY <3>2, <3>3
  <2> QED BY <1>2, <2>1, <2>2
<1> QED BY <1>3, <1>4 DEF Steady

LEMMA InitSteady == Init => Steady
BY DEF Init, Steady, PathInv, InstalledIsVerified, OpenInv, AloneInv, TaintInv, Working, WorkPcs

LEMMA NextSteady == TypeOK /\ Steady /\ [Next]_vars => Steady'
<1>1. CASE UNCHANGED vars
  BY <1>1 DEF vars, Steady, PathInv, InstalledIsVerified, OpenInv, AloneInv, TaintInv,
              Working, IsBinary, Holds
<1> QED BY <1>1, StepSteady, CrashSteady DEF Next

\* The inductive invariant of the installs.
THEOREM Invariance == Spec => []IInv
<1>1. Init => IInv
  BY InitTyped, InitSteady DEF IInv, Steady
<1>2. IInv /\ [Next]_vars => IInv'
  BY NextTyped, NextSteady DEF IInv, Steady
<1> QED BY <1>1, <1>2, PTL DEF Spec

\* What StartUMC would run is absent or a complete, executable, verified binary, for any
\* number of installs and crashes, as long as no two installs of the name overlap.
THEOREM InstalledVerified == Spec => []InstalledIsVerified
<1>1. IInv => InstalledIsVerified
  BY DEF IInv
<1> QED BY <1>1, Invariance, PTL

(***************************************************************************)
(* The temporary files.                                                    *)
(***************************************************************************)

\* An install that is under way, was lost or could not remove the file stays a witness.
LEMMA WitnessStays ==
    ASSUME TypeOK, NEW x \in Installs, InstallStep(x), NEW y \in Installs,
           Working(y) \/ inst[y].pc \in {"left", "lost"},
           y # x \/ ~Remove(x)
    PROVE  Working(y)' \/ inst'[y].pc \in {"left", "lost"}
<1>1. CASE Create(x)
  <2>1. inst'[y].pc = inst[y].pc \/ inst'[y].pc = "copy"
    <3>1. PICK i \in Openable(temp[NameOf[x]]) :
            inst' = [z \in Installs |->
                CASE z = x         -> [inst[x] EXCEPT !.pc = "copy", !.fd = i, !.alone = (Others(x) = {})]
                  [] z \in Others(x) -> [inst[z] EXCEPT !.alone = FALSE]
                  [] OTHER         -> inst[z]]
      BY <1>1 DEF Create
    <3>2. inst[y] \in InstallRecords /\ x \notin Others(x)
      BY FieldTypes DEF Others
    <3> QED BY <3>1, <3>2 DEF InstallRecords
  <2> QED BY <2>1 DEF Working, WorkPcs
<1>2. CASE Write(x) \/ CopyStart(x) \/ CopyBlock(x)
  <2>1. CASE y # x
    BY <1>2, <2>1 DEF Write, CopyStart, CopyBlock, TypeOK, Working
  <2>2. CASE y = x
    <3>1. inst[x] \in InstallRecords
      BY FieldTypes
    <3>2. Write(x) => inst'[x].pc = inst[x].pc
      <4> SUFFICES ASSUME Write(x) PROVE inst'[x].pc = inst[x].pc
        OBVIOUS
      <4>1. PICK block \in {ArtifactOf[x], Bad} :
              inst' = [inst EXCEPT ![x].off = @ + 1,
                                   ![x].intact = @ /\ block = ArtifactOf[x]]
        BY DEF Write
      <4> QED BY <3>1, <4>1 DEF TypeOK, InstallRecords
    <3>3. CopyBlock(x) => inst'[x].pc = inst[x].pc
      BY <3>1 DEF CopyBlock, TypeOK, InstallRecords
    <3>4. CopyStart(x) => inst'[x].pc = "copyfile"
      <4> SUFFICES ASSUME CopyStart(x) PROVE inst'[x].pc = "copyfile"
        OBVIOUS
      <4>1. PICK i \in Openable(target[NameOf[x]]) :
              inst' = [inst EXCEPT ![x] = [@ EXCEPT !.pc = "copyfile", !.off = 0,
                                          !.fd = temp[NameOf[x]], !.dst = i]]
        BY DEF CopyStart
      <4>2. inst'[x] = [inst[x] EXCEPT !.pc = "copyfile", !.off = 0,
                                       !.fd = temp[NameOf[x]], !.dst = i]
        BY <4>1 DEF TypeOK
      <4> QED BY <3>1, <4>2 DEF InstallRecords
    <3> QED BY <1>2, <2>2, <3>2, <3>3, <3>4 DEF Working, WorkPcs
  <2> QED BY <2>1, <2>2
<1>3. CASE VerifyFails(x) \/ RenameFails(x) \/ CopyFails(x) \/ Chmod(x) \/ Rename(x)
           \/ CopyEnd(x) \/ Verify(x)
  <2>1. OnlyOf(x) /\ inst'[x].pc \in {"remove", "chmod", "rename"}
    BY <1>3, AbandonFields, InstalledFields, GotoFields
       DEF VerifyFails, RenameFails, CopyFails, Chmod, Rename, CopyEnd, Verify
  <2> QED BY <2>1 DEF OnlyOf, Working, WorkPcs
<1>4. CASE Begin(x) \/ Get(x) \/ CreateFails(x) \/ Remove(x)
  <2>1. OnlyOf(x) /\ (~Remove(x) => inst[x].pc \in {"none", "get", "create"})
    BY <1>4, GotoFields DEF Begin, Get, CreateFails, Remove
  <2> QED BY <2>1 DEF OnlyOf, Working, WorkPcs
<1>5. CASE RemoveFails(x)
  <2>1. OnlyOf(x) /\ inst'[x].pc = "left"
    BY <1>5, GotoFields DEF RemoveFails
  <2> QED BY <2>1 DEF OnlyOf, Working, WorkPcs
<1> QED BY <1>1, <1>2, <1>3, <1>4, <1>5 DEF InstallStep

LEMMA TempStep ==
    ASSUME TypeOK, TempRemoved, NEW x \in Installs, InstallStep(x)
    PROVE  TempRemoved'
<1> SUFFICES ASSUME NEW n \in Names, temp'[n] # NoFile
             PROVE  \E y \in Installs : NameOf[y] = n /\ (Working(y)' \/ inst'[y].pc \in {"left", "lost"})
  BY DEF TempRemoved
<1>1. CASE temp[n] # NoFile
  <2>1. PICK y \in Installs : NameOf[y] = n /\ (Working(y) \/ inst[y].pc \in {"left", "lost"})
    BY <1>1 DEF TempRemoved
  <2>2. y # x \/ ~Remove(x)
    BY <2>1 DEF Remove, Removed, TypeOK
  <2> QED BY <2>1, <2>2, WitnessStays
<1>2. CASE temp[n] = NoFile
  <2>1. Create(x) /\ NameOf[x] = n
    <3>1. temp' # temp => Create(x) \/ Rename(x) \/ Remove(x)
      BY DEF InstallStep, Begin, Get, CreateFails, Write, Verify, VerifyFails, Chmod, RenameFails,
             CopyStart, CopyBlock, CopyEnd, CopyFails, RemoveFails
    <3>2. Create(x) \/ Rename(x) \/ Remove(x)
      BY <1>2, <3>1
    <3>3. \A i : [temp EXCEPT ![NameOf[x]] = i][n] # temp[n] => NameOf[x] = n
      BY DEF TypeOK
    <3>4. NameOf[x] = n
      BY <1>2, <3>2, <3>3 DEF Create, Rename, Remove, Removed
    <3>5. ~Rename(x) /\ ~Remove(x)
      BY <1>2, <3>4 DEF Rename, Remove, Removed, TypeOK
    <3> QED BY <3>2, <3>4, <3>5, Zenon
  <2>2. inst'[x].pc = "copy"
    <3>1. PICK i \in Openable(temp[NameOf[x]]) :
            inst' = [z \in Installs |->
                CASE z = x         -> [inst[x] EXCEPT !.pc = "copy", !.fd = i, !.alone = (Others(x) = {})]
                  [] z \in Others(x) -> [inst[z] EXCEPT !.alone = FALSE]
                  [] OTHER         -> inst[z]]
      BY <2>1 DEF Create
    <3>2. inst[x] \in InstallRecords /\ x \notin Others(x)
      BY FieldTypes DEF Others
    <3> QED BY <3>1, <3>2 DEF InstallRecords
  <2> QED BY <2>1, <2>2 DEF Working, WorkPcs
<1> QED BY <1>1, <1>2

LEMMA TempCrash ==
    ASSUME TypeOK, TempRemoved, Crash
    PROVE  TempRemoved'
<1>1. ASSUME NEW y \in Installs, Working(y) \/ inst[y].pc \in {"left", "lost"}
      PROVE  inst'[y].pc \in {"left", "lost"}
  <2>1. inst[y] \in InstallRecords
    BY FieldTypes
  <2> QED BY <1>1, <2>1 DEF Crash, InstallRecords, Ended, Working, WorkPcs
<1> QED BY <1>1 DEF TempRemoved, Crash

\* A temporary file belongs to an install under way or was left by a crash or a removal that
\* failed, whatever the overlaps and the other errors.
THEOREM TempsRemoved == Spec => []TempRemoved
<1>1. Init => TempRemoved
  BY DEF Init, TempRemoved
<1>2. TypeOK /\ TempRemoved /\ [Next]_vars => TempRemoved'
  <2>1. CASE UNCHANGED vars
    BY <2>1 DEF vars, TempRemoved, Working
  <2> QED BY <2>1, TempStep, TempCrash DEF Next
<1> QED BY <1>1, <1>2, TypeCorrect, PTL DEF Spec

(***************************************************************************)
(* An install that runs alone is atomic.                                   *)
(***************************************************************************)

\* What the binaries do not see.
Unseen == UNCHANGED <<BinaryOf, StageOf, AloneOf>>

\* A file of one artifact has that artifact's content.
LEMMA ContentIs ==
    ASSUME NEW data, NEW a \in Artifacts, \A b \in 1 .. Blocks : data[b] = a
    PROVE  Content(data) = a
<1>1. 1 \in 1 .. Blocks
  BY InstallAssumption
<1>2. Content(data) \in Artifacts /\ \A b \in 1 .. Blocks : data[b] = Content(data)
  BY DEF Content
<1> QED BY <1>1, <1>2

\* A binary stays when its file, its path and its taint do.
LEMMA BinaryStays ==
    ASSUME IInv, NEW n \in Names,
           tainted'[n] = tainted[n], target'[n] = target[n],
           ~tainted[n] /\ target[n] # NoFile =>
               /\ file'[target[n]].exec
               /\ \A b \in 1 .. Blocks : file'[target[n]].data[b] = file[target[n]].data[b]
    PROVE  BinaryAt(n)' = BinaryAt(n)
<1>1. CASE tainted[n]
  BY <1>1 DEF BinaryAt
<1>2. CASE ~tainted[n] /\ target[n] = NoFile
  BY <1>2 DEF BinaryAt
<1>3. CASE ~tainted[n] /\ target[n] # NoFile
  <2>1. IsBinary(target[n])
    BY <1>3 DEF IInv, InstalledIsVerified
  <2>2. PICK a \in Artifacts : \A b \in 1 .. Blocks : file[target[n]].data[b] = a
    BY <2>1 DEF IsBinary, Holds
  <2>3. \A b \in 1 .. Blocks : file'[target[n]].data[b] = a
    BY <1>3, <2>2
  <2>4. Content(file[target[n]].data) = a /\ Content(file'[target[n]].data) = a
    BY <2>2, <2>3, ContentIs
  <2>5. IsBinary(target[n])'
    BY <1>3, <2>3 DEF IsBinary, Holds
  <2>6. BinaryAt(n) = a
    BY <1>3, <2>1, <2>4 DEF BinaryAt
  <2>7. BinaryAt(n)' = a
    BY <1>3, <2>4, <2>5 DEF BinaryAt
  <2> QED BY <2>6, <2>7
<1> QED BY <1>1, <1>2, <1>3

\* The stages after a step of x alone.
LEMMA StageMoves ==
    ASSUME NEW x \in Installs, OnlyOf(x)
    PROVE  /\ StageOf' = [StageOf EXCEPT ![x] = StageAt(x)']
           /\ inst'[x].alone = inst[x].alone => AloneOf' = AloneOf
<1>1. \A y \in Installs \ {x} : StageAt(y)' = StageAt(y)
  BY DEF OnlyOf, StageAt
<1>2. ASSUME inst'[x].alone = inst[x].alone
      PROVE  AloneOf' = AloneOf
  BY <1>2 DEF AloneOf, OnlyOf
<1> QED BY <1>1, <1>2 DEF StageOf

\* The stage is that of pc, and of err once the temporary file is to be removed.
LEMMA StageIs ==
    ASSUME NEW x \in Installs
    PROVE  /\ inst[x].pc \in {"none", "get", "create"} => StageAt(x) = "asked"
           /\ inst[x].pc \in {"copy", "chmod", "rename", "copyfile"} => StageAt(x) = "active"
           /\ inst[x].pc = "remove" => StageAt(x) = IF inst[x].err THEN "active" ELSE "put"
           /\ inst[x].pc = "ok" => StageAt(x) = "ok"
           /\ inst[x].pc = "left" => StageAt(x) = IF inst[x].err THEN "failed" ELSE "ok"
           /\ inst[x].pc \in {"failed", "lost"} => StageAt(x) = "failed"
  BY DEF StageAt, WorkPcs

LEMMA NextStageIs ==
    ASSUME NEW x \in Installs
    PROVE  /\ inst'[x].pc \in {"none", "get", "create"} => StageAt(x)' = "asked"
           /\ inst'[x].pc \in {"copy", "chmod", "rename", "copyfile"} => StageAt(x)' = "active"
           /\ inst'[x].pc = "remove" => StageAt(x)' = IF inst'[x].err THEN "active" ELSE "put"
           /\ inst'[x].pc = "ok" => StageAt(x)' = "ok"
           /\ inst'[x].pc = "left" => StageAt(x)' = IF inst'[x].err THEN "failed" ELSE "ok"
           /\ inst'[x].pc \in {"failed", "lost"} => StageAt(x)' = "failed"
  BY DEF StageAt, WorkPcs

LEMMA StageKept ==
    ASSUME NEW x \in Installs, inst'[x].pc = inst[x].pc, inst'[x].err = inst[x].err
    PROVE  StageAt(x)' = StageAt(x)
  BY DEF StageAt

\* What Abandon and Installed return.
LEMMA ErrFields ==
    ASSUME TypeOK, NEW x \in Installs
    PROVE  /\ Abandon(x) => inst'[x].err
           /\ Installed(x) => ~inst'[x].err
<1>1. inst[x] \in InstallRecords /\ inst \in [Installs -> InstallRecords]
  BY DEF TypeOK
<1>2. Abandon(x) => inst'[x].err
  BY <1>1 DEF Abandon, Ended, InstallRecords
<1>3. Installed(x) => ~inst'[x].err
  BY <1>1 DEF Installed, Ended, InstallRecords
<1> QED BY <1>2, <1>3

\* A step of x that leaves the binaries and the files as they are.
LEMMA StageStep ==
    ASSUME IInv, NEW x \in Installs, OnlyOf(x), Keeps(x),
           \A n \in Names : BinaryAt(n)' = BinaryAt(n),
           \/ StageAt(x)' = StageAt(x)
           \/ StageAt(x) \in {"asked", "active"} /\ StageAt(x)' = "failed"
           \/ StageAt(x) = "put" /\ StageAt(x)' = "ok"
    PROVE  Atomic!Next \/ Unseen
<1>1. StageOf' = [StageOf EXCEPT ![x] = StageAt(x)'] /\ AloneOf' = AloneOf
  BY StageMoves DEF Keeps
<1>2. BinaryOf' = BinaryOf
  BY DEF BinaryOf
<1>3. StageOf[x] = StageAt(x) /\ StageOf = [StageOf EXCEPT ![x] = StageAt(x)]
  BY DEF StageOf
<1>4. CASE StageAt(x)' = StageAt(x)
  BY <1>1, <1>2, <1>3, <1>4 DEF Unseen
<1>5. CASE StageAt(x) \in {"asked", "active"} /\ StageAt(x)' = "failed"
  <2>1. Atomic!Fail(x)
    BY <1>1, <1>2, <1>3, <1>5 DEF Atomic!Fail
  <2> QED BY <2>1 DEF Atomic!Next
<1>6. CASE StageAt(x) = "put" /\ StageAt(x)' = "ok"
  <2>1. Atomic!Succeed(x)
    BY <1>1, <1>2, <1>3, <1>6 DEF Atomic!Succeed
  <2> QED BY <2>1 DEF Atomic!Next
<1> QED BY <1>4, <1>5, <1>6

\* The steps that change no file.
LEMMA QuietMaps ==
    ASSUME IInv, NEW x \in Installs,
           \/ Begin(x) \/ Get(x) \/ CreateFails(x) \/ Verify(x) \/ VerifyFails(x)
           \/ RenameFails(x) \/ CopyFails(x) \/ Remove(x) \/ RemoveFails(x)
    PROVE  Atomic!Next \/ Unseen
<1>0. TypeOK /\ UNCHANGED <<target, file, tainted>>
  BY DEF IInv, Begin, Get, CreateFails, Verify, VerifyFails, RenameFails, CopyFails, Remove,
         RemoveFails
<1>1. \A n \in Names : BinaryAt(n)' = BinaryAt(n)
  BY <1>0 DEF BinaryAt, IsBinary, Holds
<1>2. CASE Begin(x) \/ Get(x) \/ CreateFails(x)
  <2>1. /\ inst[x].pc \in {"none", "get", "create"}
        /\ \E p \in {"get", "create", "failed"} : Goto(x, p)
    BY <1>2 DEF Begin, Get, CreateFails
  <2>2. OnlyOf(x) /\ Keeps(x) /\ inst'[x].pc \in {"get", "create", "failed"}
    BY <1>0, <2>1, GotoFields
  <2>3. StageAt(x) = "asked" /\ StageAt(x)' \in {"asked", "failed"}
    BY <2>1, <2>2, StageIs, NextStageIs
  <2> QED BY <1>1, <2>2, <2>3, StageStep
<1>3. CASE Verify(x)
  <2>1. inst[x].pc = "copy" /\ Goto(x, "chmod")
    BY <1>3 DEF Verify
  <2>2. OnlyOf(x) /\ Keeps(x) /\ inst'[x].pc = "chmod"
    BY <1>0, <2>1, GotoFields
  <2>3. StageAt(x) = "active" /\ StageAt(x)' = "active"
    BY <2>1, <2>2, StageIs, NextStageIs
  <2> QED BY <1>1, <2>2, <2>3, StageStep
<1>4. CASE VerifyFails(x) \/ RenameFails(x) \/ CopyFails(x)
  <2>1. inst[x].pc \in {"copy", "rename", "copyfile"} /\ Abandon(x)
    BY <1>4 DEF VerifyFails, RenameFails, CopyFails
  <2>2. OnlyOf(x) /\ Keeps(x) /\ inst'[x].pc = "remove" /\ inst'[x].err
    BY <1>0, <2>1, AbandonFields, ErrFields
  <2>3. StageAt(x) = "active" /\ StageAt(x)' = "active"
    BY <2>1, <2>2, StageIs, NextStageIs
  <2> QED BY <1>1, <2>2, <2>3, StageStep
<1>5. CASE Remove(x) \/ RemoveFails(x)
  <2>1. /\ inst[x].pc = "remove"
        /\ Goto(x, IF inst[x].err THEN "failed" ELSE "ok") \/ Goto(x, "left")
    BY <1>5 DEF Remove, RemoveFails
  <2>2. /\ OnlyOf(x) /\ Keeps(x) /\ inst'[x].err = inst[x].err
        /\ inst'[x].pc \in {IF inst[x].err THEN "failed" ELSE "ok", "left"}
    <3>1. inst[x] \in InstallRecords
      BY <1>0 DEF TypeOK
    <3>2. inst'[x].err = inst[x].err
      BY <1>0, <2>1, <3>1 DEF Goto, TypeOK, InstallRecords
    <3> QED BY <1>0, <2>1, <3>2, GotoFields
  <2>3. CASE inst[x].err
    <3>1. StageAt(x) = "active" /\ StageAt(x)' = "failed"
      BY <2>1, <2>2, <2>3, StageIs, NextStageIs
    <3> QED BY <1>1, <2>2, <3>1, StageStep
  <2>4. CASE ~inst[x].err
    <3>1. StageAt(x) = "put" /\ StageAt(x)' = "ok"
      BY <2>1, <2>2, <2>4, StageIs, NextStageIs
    <3> QED BY <1>1, <2>2, <3>1, StageStep
  <2> QED BY <2>3, <2>4
<1> QED BY <1>2, <1>3, <1>4, <1>5

\* The others that are past os.Create are those that the binaries see as rivals.
LEMMA RivalsAre ==
    ASSUME IInv, NEW x \in Installs
    PROVE  Atomic!Rivals(x) = Others(x)
<1>1. ASSUME NEW y \in Installs
      PROVE  StageOf[y] \in {"active", "put"} <=> Working(y)
  <2>1. inst[y] \in InstallRecords
    BY DEF IInv, TypeOK
  <2>2. inst[y].pc \in {"none", "get", "create", "ok", "failed", "left", "lost"} \cup WorkPcs
    BY <2>1 DEF InstallRecords
  <2>3. StageOf[y] = StageAt(y)
    BY DEF StageOf
  <2> QED BY <2>2, <2>3, StageIs DEF Working, WorkPcs
<1> QED BY <1>1 DEF Atomic!Rivals, Others

\* os.Create empties a temporary file, or makes one, that is no binary.
LEMMA CreateMaps ==
    ASSUME IInv, NEW x \in Installs, Create(x)
    PROVE  Atomic!Next
<1> DEFINE n == NameOf[x]
<1>0. TypeOK /\ n \in Names /\ temp[n] \in Inodes \cup {NoFile}
  BY FieldTypes DEF IInv
<1>1. PICK i \in Openable(temp[n]) :
        /\ file' = Opened(i)
        /\ temp' = [temp EXCEPT ![n] = i]
        /\ inst' = [y \in Installs |->
              CASE y = x         -> [inst[x] EXCEPT !.pc = "copy", !.fd = i, !.alone = (Others(x) = {})]
                [] y \in Others(x) -> [inst[y] EXCEPT !.alone = FALSE]
                [] OTHER         -> inst[y]]
  BY DEF Create
<1>2. i \in Inodes /\ (i = temp[n] \/ ~file[i].used)
  BY <1>0, <1>1, OpenableTyped
<1>3. /\ inst[x].pc = "create" /\ UNCHANGED target
      /\ tainted' = [tainted EXCEPT ![n] = @ \/ Others(x) # {}]
  BY DEF Create
<1>4. \A j \in Inodes \ {i} : file'[j] = file[j]
  BY <1>0, <1>1, <1>2, OpenedFields
<1>5. \A m \in Names : target[m] # NoFile => target[m] \in Inodes \ {i}
  BY <1>0, <1>2, PathTypes, InstallAssumption DEF IInv, PathInv
<1>6. ASSUME NEW m \in Names, tainted'[m] = tainted[m]
      PROVE  BinaryAt(m)' = BinaryAt(m)
  <2>1. ~tainted[m] /\ target[m] # NoFile => file'[target[m]] = file[target[m]]
    BY <1>4, <1>5
  <2>2. ~tainted[m] /\ target[m] # NoFile => file[target[m]].exec
    BY DEF IInv, InstalledIsVerified, IsBinary
  <2> QED BY <1>3, <1>6, <2>1, <2>2, BinaryStays
<1>7. \A m \in Names : tainted'[m] = IF m = n THEN tainted[n] \/ Others(x) # {} ELSE tainted[m]
  BY <1>0, <1>3 DEF TypeOK
<1>8. BinaryOf' = IF Others(x) = {} THEN BinaryOf ELSE [BinaryOf EXCEPT ![n] = Bad]
  <2>1. CASE Others(x) = {}
    <3>1. \A m \in Names : BinaryAt(m)' = BinaryAt(m)
      BY <1>0, <1>6, <1>7, <2>1 DEF TypeOK
    <3> QED BY <2>1, <3>1 DEF BinaryOf
  <2>2. CASE Others(x) # {}
    <3>1. \A m \in Names \ {n} : BinaryAt(m)' = BinaryAt(m)
      BY <1>6, <1>7
    <3>2. BinaryAt(n)' = Bad
      BY <1>0, <1>7, <2>2 DEF BinaryAt
    <3> QED BY <2>2, <3>1, <3>2 DEF BinaryOf
  <2> QED BY <2>1, <2>2
<1>9. ASSUME NEW y \in Installs
      PROVE  /\ inst'[y].alone = IF y = x THEN Others(x) = {} ELSE inst[y].alone /\ y \notin Others(x)
             /\ StageAt(y)' = IF y = x THEN "active" ELSE StageAt(y)
  <2>1. inst[y] \in InstallRecords /\ x \notin Others(x)
    BY <1>0 DEF TypeOK, Others
  <2>2. CASE y = x
    <3>1. inst'[x] = [inst[x] EXCEPT !.pc = "copy", !.fd = i, !.alone = (Others(x) = {})]
      BY <1>1, <2>1
    <3>2. inst'[x].pc = "copy" /\ inst'[x].alone = (Others(x) = {})
      BY <2>1, <2>2, <3>1 DEF InstallRecords
    <3> QED BY <2>2, <3>2, NextStageIs
  <2>3. CASE y # x /\ y \in Others(x)
    <3>1. inst'[y] = [inst[y] EXCEPT !.alone = FALSE]
      BY <1>1, <2>3
    <3>2. inst'[y].pc = inst[y].pc /\ inst'[y].err = inst[y].err /\ inst'[y].alone = FALSE
      BY <2>1, <3>1 DEF InstallRecords
    <3>3. StageAt(y)' = StageAt(y)
      BY <3>2, StageKept
    <3> QED BY <2>3, <3>2, <3>3
  <2>4. CASE y # x /\ y \notin Others(x)
    <3>1. inst'[y] = inst[y] /\ inst[y].alone \in BOOLEAN
      BY <1>1, <2>1, <2>4 DEF InstallRecords
    <3>2. StageAt(y)' = StageAt(y)
      BY <3>1, StageKept
    <3> QED BY <2>4, <3>1, <3>2
  <2> QED BY <2>2, <2>3, <2>4
<1>10. Atomic!Open(x)
  <2>1. StageOf[x] = "asked"
    BY <1>3, StageIs DEF StageOf
  <2>2. StageOf' = [StageOf EXCEPT ![x] = "active"]
    BY <1>9 DEF StageOf
  <2>3. AloneOf' = [y \in Installs |-> IF y = x THEN Others(x) = {}
                                                ELSE AloneOf[y] /\ y \notin Others(x)]
    BY <1>9 DEF AloneOf
  <2> QED BY <1>8, <2>1, <2>2, <2>3, RivalsAre DEF Atomic!Open
<1> QED BY <1>10 DEF Atomic!Next

\* A write to the temporary file, or to its mode, is none to a binary that is known.
LEMMA WriteMaps ==
    ASSUME IInv, NEW x \in Installs, Write(x)
    PROVE  Atomic!Next \/ Unseen
<1> DEFINE c == inst[x].off + 1
           fd == inst[x].fd
<1>0. TypeOK /\ Steady /\ OpenInv(x) /\ AloneInv(x) /\ TaintInv(x)
  BY DEF IInv, Steady
<1>1. PICK block \in {ArtifactOf[x], Bad} :
        /\ file' = [file EXCEPT ![inst[x].fd].data[inst[x].off + 1] = block]
        /\ inst' = [inst EXCEPT ![x].off = @ + 1,
                                ![x].intact = @ /\ block = ArtifactOf[x]]
  BY DEF Write
<1>2. /\ c \in 1 .. Blocks /\ inst[x].pc = "copy" /\ Working(x)
      /\ UNCHANGED <<temp, target, tainted>>
  BY <1>0, NextBlock DEF Write, Working, WorkPcs
<1>3. NameOf[x] \in Names /\ fd \in Inodes /\ inst[x] \in InstallRecords
  BY <1>0, FieldTypes
<1>4. \A j \in Inodes \ {fd} : file'[j] = file[j]
  BY <1>0, <1>1 DEF TypeOK
<1>5. ASSUME NEW m \in Names, ~tainted[m], target[m] # NoFile
      PROVE  target[m] \in Inodes \ {fd}
  <2>1. ASSUME target[m] = fd
        PROVE  FALSE
    <3>1. m = NameOf[x]
      BY <1>0, <1>2, <2>1 DEF OpenInv
    <3>2. inst[x].alone
      BY <1>0, <1>2, <1>5, <3>1, FieldTypes DEF TaintInv
    <3>3. temp[m] = fd
      BY <1>0, <1>2, <3>1, <3>2 DEF AloneInv
    <3> QED BY <1>5, <2>1, <3>3 DEF IInv, PathInv
  <2> QED BY <1>0, <1>5, <2>1, PathTypes
<1>6. \A m \in Names : BinaryAt(m)' = BinaryAt(m)
  <2>1. ASSUME NEW m \in Names, ~tainted[m], target[m] # NoFile
        PROVE  file'[target[m]] = file[target[m]] /\ file[target[m]].exec
    BY <1>4, <1>5, <2>1 DEF IInv, InstalledIsVerified, IsBinary
  <2> QED BY <1>2, <2>1, BinaryStays
<1>7. /\ OnlyOf(x)
      /\ inst'[x].pc = "copy" /\ inst'[x].alone = inst[x].alone
  BY <1>0, <1>1, <1>2, <1>3 DEF TypeOK, InstallRecords, OnlyOf
<1>8. StageAt(x) = "active" /\ StageAt(x)' = "active"
  BY <1>2, <1>7, StageIs, NextStageIs
<1>9. StageOf' = [StageOf EXCEPT ![x] = "active"] /\ AloneOf' = AloneOf
  BY <1>7, <1>8, StageMoves
<1>10. UNCHANGED <<BinaryOf, StageOf, AloneOf>>
  BY <1>6, <1>8, <1>9 DEF BinaryOf, StageOf
<1> QED BY <1>10 DEF Unseen

LEMMA ChmodMaps ==
    ASSUME IInv, NEW x \in Installs, Chmod(x)
    PROVE  Atomic!Next \/ Unseen
<1> DEFINE n == NameOf[x]
<1>0. TypeOK /\ n \in Names
  BY FieldTypes DEF IInv
<1>1. /\ inst[x].pc = "chmod" /\ UNCHANGED <<target, tainted>>
      /\ \/ temp[n] # NoFile /\ file' = Moded(temp[n], TRUE) /\ Goto(x, "rename")
         \/ UNCHANGED file /\ Abandon(x)
  BY DEF Chmod, Moded
<1>2. \A j \in Inodes : file[j].exec => /\ file'[j].exec
                                        /\ file'[j].data = file[j].data
  <2>1. temp[n] # NoFile => temp[n] \in Inodes
    BY <1>0, PathTypes
  <2>2. CASE temp[n] # NoFile /\ file' = Moded(temp[n], TRUE)
    <3>1. \A j \in Inodes : /\ file'[j].data = file[j].data
                            /\ file'[j].exec = IF j = temp[n] THEN TRUE ELSE file[j].exec
      BY <1>0, <2>1, <2>2, ExecFields
    <3> QED BY <3>1
  <2>3. CASE UNCHANGED file
    BY <2>3
  <2> QED BY <1>1, <2>2, <2>3
<1>3. \A m \in Names : BinaryAt(m)' = BinaryAt(m)
  <2>1. ASSUME NEW m \in Names, ~tainted[m], target[m] # NoFile
        PROVE  target[m] \in Inodes /\ file[target[m]].exec
    BY <1>0, <2>1, PathTypes DEF IInv, InstalledIsVerified, IsBinary
  <2> QED BY <1>1, <1>2, <2>1, BinaryStays
<1>4. CASE Goto(x, "rename")
  <2>1. OnlyOf(x) /\ Keeps(x) /\ inst'[x].pc = "rename"
    BY <1>0, <1>4, GotoFields
  <2>2. StageAt(x) = "active" /\ StageAt(x)' = "active"
    BY <1>1, <2>1, StageIs, NextStageIs
  <2> QED BY <1>3, <2>1, <2>2, StageStep
<1>5. CASE Abandon(x)
  <2>1. OnlyOf(x) /\ Keeps(x) /\ inst'[x].pc = "remove" /\ inst'[x].err
    BY <1>0, <1>5, AbandonFields, ErrFields
  <2>2. StageAt(x) = "active" /\ StageAt(x)' = "active"
    BY <1>1, <2>1, StageIs, NextStageIs
  <2> QED BY <1>3, <2>1, <2>2, StageStep
<1> QED BY <1>1, <1>4, <1>5

\* A step that puts a binary in its place, and touches no other that is known.
LEMMA PutMaps ==
    ASSUME IInv, NEW x \in Installs, OnlyOf(x), Installed(x),
           inst[x].pc \in {"rename", "copyfile"},
           \A m \in Names \ {NameOf[x]} : BinaryAt(m)' = BinaryAt(m),
           BinaryAt(NameOf[x])' = IF inst[x].alone THEN ArtifactOf[x] ELSE Bad
    PROVE  Atomic!Next
<1> DEFINE n == NameOf[x]
<1>0. TypeOK /\ n \in Names
  BY FieldTypes DEF IInv
<1>1. Keeps(x) /\ inst'[x].pc = "remove" /\ ~inst'[x].err
  BY <1>0, InstalledFields, ErrFields
<1>2. StageAt(x) = "active" /\ StageAt(x)' = "put"
  BY <1>1, StageIs, NextStageIs
<1>3. StageOf' = [StageOf EXCEPT ![x] = "put"] /\ AloneOf' = AloneOf /\ StageOf[x] = "active"
  BY <1>1, <1>2, StageMoves DEF StageOf, Keeps
<1>4. AloneOf[x] = inst[x].alone
  BY DEF AloneOf
<1>5. BinaryOf' = [BinaryOf EXCEPT ![n] = IF AloneOf[x] THEN ArtifactOf[x] ELSE Bad]
  BY <1>0, <1>4 DEF BinaryOf
<1>6. Atomic!Put(x)
  BY <1>3, <1>5 DEF Atomic!Put
<1> QED BY <1>6 DEF Atomic!Next

\* What the binary is when its file holds an artifact.
LEMMA BinaryBecomes ==
    ASSUME NEW n \in Names, NEW a \in Artifacts, ~tainted'[n], target'[n] # NoFile,
           file'[target'[n]].exec,
           \A b \in 1 .. Blocks : file'[target'[n]].data[b] = a
    PROVE  BinaryAt(n)' = a
<1>1. IsBinary(target[n])'
  BY DEF IsBinary, Holds
<1>2. Content(file'[target'[n]].data) = a
  BY ContentIs
<1> QED BY <1>1, <1>2 DEF BinaryAt

LEMMA RenameMaps ==
    ASSUME IInv, NEW x \in Installs, Rename(x)
    PROVE  Atomic!Next
<1> DEFINE n == NameOf[x]
           i == temp[n]
<1>0. TypeOK /\ n \in Names /\ AloneInv(x) /\ TaintInv(x) /\ ArtifactOf[x] \in Artifacts
  BY FieldTypes DEF IInv
<1>1. /\ inst[x].pc = "rename" /\ Working(x) /\ i # NoFile
      /\ file' = file /\ Installed(x)
  BY DEF Rename, Working, WorkPcs
<1>2. /\ target'[n] = i
      /\ \A m \in Names \ {n} : target'[m] = target[m]
  BY <1>0 DEF Rename, TypeOK
<1>3. /\ tainted'[n] = (tainted[n] /\ ~inst[x].alone)
      /\ \A m \in Names \ {n} : tainted'[m] = tainted[m]
  BY <1>0 DEF Rename, TypeOK
<1>4. OnlyOf(x)
  BY <1>0, <1>1, InstalledFields
<1>5. ASSUME NEW m \in Names \ {n}
      PROVE  BinaryAt(m)' = BinaryAt(m)
  <2>1. ~tainted[m] /\ target[m] # NoFile => file[target[m]].exec
    BY DEF IInv, InstalledIsVerified, IsBinary
  <2> QED BY <1>1, <1>2, <1>3, <2>1, BinaryStays
<1>6. CASE inst[x].alone
  <2>1. ~tainted'[n]
    BY <1>3, <1>6
  <2>2. i = inst[x].fd /\ Holds(i, ArtifactOf[x]) /\ file[i].exec
    BY <1>0, <1>1, <1>6 DEF AloneInv
  <2>3. file'[target'[n]].exec /\ \A b \in 1 .. Blocks : file'[target'[n]].data[b] = ArtifactOf[x]
    BY <1>1, <1>2, <2>2 DEF Holds
  <2>4. BinaryAt(n)' = ArtifactOf[x]
    BY <1>0, <1>1, <1>2, <2>1, <2>3, BinaryBecomes
  <2> QED BY <1>1, <1>4, <1>5, <1>6, <2>4, PutMaps
<1>7. CASE ~inst[x].alone
  <2>1. tainted'[n]
    BY <1>0, <1>1, <1>3, <1>7 DEF TaintInv
  <2>2. BinaryAt(n)' = Bad
    BY <2>1 DEF BinaryAt
  <2> QED BY <1>1, <1>4, <1>5, <1>7, <2>2, PutMaps
<1> QED BY <1>6, <1>7

LEMMA CopyStartMaps ==
    ASSUME IInv, NEW x \in Installs, CopyStart(x)
    PROVE  Atomic!Next
<1> DEFINE n == NameOf[x]
<1>0. TypeOK /\ n \in Names /\ target[n] \in Inodes \cup {NoFile} /\ temp[n] \in Inodes \cup {NoFile}
  BY FieldTypes DEF IInv
<1>1. PICK i \in Openable(target[n]) :
        /\ file' = Opened(i)
        /\ target' = [target EXCEPT ![n] = i]
        /\ inst' = [inst EXCEPT ![x] = [@ EXCEPT !.pc = "copyfile", !.off = 0,
                                        !.fd = temp[n], !.dst = i]]
  BY DEF CopyStart
<1>2. i \in Inodes /\ (i = target[n] \/ ~file[i].used)
  BY <1>0, <1>1, OpenableTyped
<1>3. /\ inst[x].pc = "rename"
      /\ tainted'[n] /\ \A m \in Names \ {n} : tainted'[m] = tainted[m]
      /\ \A m \in Names \ {n} : target'[m] = target[m]
  BY <1>0, <1>1 DEF CopyStart, TypeOK
<1>4. \A j \in Inodes \ {i} : file'[j] = file[j]
  BY <1>0, <1>1, <1>2, OpenedFields
<1>5. \A m \in Names \ {n} : target[m] # NoFile => target[m] \in Inodes \ {i}
  BY <1>0, <1>2, PathTypes, InstallAssumption DEF IInv, PathInv
<1>6. ASSUME NEW m \in Names \ {n}
      PROVE  BinaryAt(m)' = BinaryAt(m)
  <2>1. ~tainted[m] /\ target[m] # NoFile =>
            file'[target[m]] = file[target[m]] /\ file[target[m]].exec
    BY <1>4, <1>5 DEF IInv, InstalledIsVerified, IsBinary
  <2> QED BY <1>3, <2>1, BinaryStays
<1>7. BinaryAt(n)' = Bad
  BY <1>3 DEF BinaryAt
<1>8. BinaryOf' = [BinaryOf EXCEPT ![n] = Bad]
  BY <1>6, <1>7 DEF BinaryOf
<1>9. OnlyOf(x) /\ inst'[x].pc = "copyfile" /\ inst'[x].alone = inst[x].alone
  <2>1. inst[x] \in InstallRecords /\ inst \in [Installs -> InstallRecords]
    BY <1>0 DEF TypeOK
  <2>2. inst'[x] = [inst[x] EXCEPT !.pc = "copyfile", !.off = 0, !.fd = temp[n], !.dst = i]
    BY <1>1, <2>1
  <2>3. OnlyOf(x)
    BY <1>1, <2>1 DEF OnlyOf
  <2> HIDE DEF n
  <2> QED BY <2>1, <2>2, <2>3 DEF InstallRecords
<1>10. StageAt(x) = "active" /\ StageAt(x)' = "active"
  BY <1>3, <1>9, StageIs, NextStageIs
<1>11. StageOf' = StageOf /\ AloneOf' = AloneOf /\ StageOf[x] = "active"
  BY <1>9, <1>10, StageMoves DEF StageOf
<1>12. Atomic!Spoil(x)
  BY <1>8, <1>11 DEF Atomic!Spoil
<1> QED BY <1>12 DEF Atomic!Next

\* The copy writes to a binary that is unknown.
LEMMA CopyBlockMaps ==
    ASSUME IInv, NEW x \in Installs, CopyBlock(x)
    PROVE  Atomic!Next \/ Unseen
<1> DEFINE dst == inst[x].dst
<1>0. TypeOK /\ OpenInv(x) /\ TaintInv(x) /\ dst \in Inodes /\ inst[x] \in InstallRecords
  BY FieldTypes DEF IInv
<1>1. /\ inst[x].pc = "copyfile" /\ UNCHANGED <<target, tainted>>
      /\ \A j \in Inodes \ {dst} : file'[j] = file[j]
      /\ inst' = [inst EXCEPT ![x].off = @ + 1]
  BY <1>0 DEF CopyBlock, TypeOK
<1>2. \A m \in Names : BinaryAt(m)' = BinaryAt(m)
  <2>1. ASSUME NEW m \in Names, ~tainted[m], target[m] # NoFile
        PROVE  file'[target[m]] = file[target[m]] /\ file[target[m]].exec
    <3>1. target[m] # dst
      BY <1>0, <1>1, <2>1 DEF OpenInv, TaintInv
    <3>2. target[m] \in Inodes \ {dst}
      BY <1>0, <2>1, <3>1, PathTypes
    <3> QED BY <1>1, <2>1, <3>2 DEF IInv, InstalledIsVerified, IsBinary
  <2> QED BY <1>1, <2>1, BinaryStays
<1>3. OnlyOf(x) /\ inst'[x].pc = "copyfile" /\ inst'[x].alone = inst[x].alone
  BY <1>0, <1>1 DEF TypeOK, InstallRecords, OnlyOf
<1>4. StageAt(x) = "active" /\ StageAt(x)' = "active"
  BY <1>1, <1>3, StageIs, NextStageIs
<1>5. StageOf' = [StageOf EXCEPT ![x] = "active"] /\ AloneOf' = AloneOf
  BY <1>3, <1>4, StageMoves
<1>6. UNCHANGED <<BinaryOf, StageOf, AloneOf>>
  BY <1>2, <1>4, <1>5 DEF BinaryOf, StageOf
<1> QED BY <1>6 DEF Unseen

LEMMA CopyEndMaps ==
    ASSUME IInv, NEW x \in Installs, CopyEnd(x)
    PROVE  Atomic!Next
<1> DEFINE n == NameOf[x]
           i == target[n]
           e == file[temp[n]].exec
<1>0. /\ TypeOK /\ n \in Names /\ OpenInv(x) /\ AloneInv(x) /\ TaintInv(x)
      /\ ArtifactOf[x] \in Artifacts /\ i \in Inodes \cup {NoFile} /\ temp[n] \in Inodes
      /\ inst[x].dst \in Inodes
  BY FieldTypes DEF IInv, CopyEnd
<1>1. /\ inst[x].pc = "copyfile" /\ inst[x].off = Blocks /\ Working(x)
      /\ UNCHANGED <<temp, target>> /\ Installed(x)
  BY DEF CopyEnd, Working, WorkPcs
<1>2. tainted'[n] = ~inst[x].alone /\ \A m \in Names \ {n} : tainted'[m] = tainted[m]
  BY <1>0 DEF CopyEnd, TypeOK
<1>3. \A j \in Inodes : /\ file'[j].data = file[j].data
                        /\ file'[j].exec = IF j = i THEN e ELSE file[j].exec
  <2>1. file' = Moded(i, e)
    BY DEF CopyEnd, Moded
  <2>2. e \in BOOLEAN
    BY <1>0 DEF TypeOK, FileRecords
  <2> HIDE DEF i, e
  <2>3. CASE i = NoFile
    <3>1. file' = file
      BY <1>0, <2>1, <2>3, InstallAssumption DEF Moded, TypeOK
    <3> QED BY <2>3, <3>1, InstallAssumption
  <2> QED BY <1>0, <2>1, <2>2, <2>3, ExecFields
<1>4. OnlyOf(x)
  BY <1>0, <1>1, InstalledFields
<1>5. ASSUME NEW m \in Names \ {n}
      PROVE  BinaryAt(m)' = BinaryAt(m)
  <2>1. ~tainted[m] /\ target[m] # NoFile =>
            /\ file[target[m]].exec /\ target[m] \in Inodes \ {i}
    BY <1>0, PathTypes DEF IInv, InstalledIsVerified, IsBinary, PathInv
  <2> QED BY <1>1, <1>2, <1>3, <2>1, BinaryStays
<1>6. CASE inst[x].alone
  <2>1. /\ i = inst[x].dst /\ temp[n] = inst[x].fd /\ file[temp[n]].exec
        /\ \A b \in 1 .. Blocks : file[i].data[b] = ArtifactOf[x]
    BY <1>0, <1>1, <1>6 DEF AloneInv
  <2>2. file'[i].exec /\ \A b \in 1 .. Blocks : file'[i].data[b] = ArtifactOf[x]
    BY <1>0, <1>3, <2>1
  <2>3. BinaryAt(n)' = ArtifactOf[x]
    <3>1. target'[n] = i /\ i \in Inodes /\ i # NoFile
      BY <1>0, <1>1, <2>1, InstallAssumption
    <3>2. ~tainted'[n]
      BY <1>2, <1>6
    <3> HIDE DEF i, e, n
    <3> QED BY <1>0, <2>2, <3>1, <3>2, BinaryBecomes
  <2> QED BY <1>1, <1>4, <1>5, <1>6, <2>3, PutMaps
<1>7. CASE ~inst[x].alone
  <2>1. BinaryAt(n)' = Bad
    BY <1>2, <1>7 DEF BinaryAt
  <2> QED BY <1>1, <1>4, <1>5, <1>7, <2>1, PutMaps
<1> QED BY <1>6, <1>7

\* A crash loses the requests that are not answered.
LEMMA CrashMaps ==
    ASSUME IInv, Crash
    PROVE  Atomic!Next
<1> DEFINE lost == {x \in Installs : Working(x) \/ inst[x].pc \in {"get", "create"}}
<1>0. TypeOK /\ UNCHANGED <<target, file, tainted>>
  BY DEF IInv, Crash
<1>1. BinaryOf' = BinaryOf
  <2>1. \A m \in Names : ~tainted[m] /\ target[m] # NoFile => file[target[m]].exec
    BY DEF IInv, InstalledIsVerified, IsBinary
  <2>2. \A m \in Names : BinaryAt(m)' = BinaryAt(m)
    BY <1>0, <2>1, BinaryStays
  <2> QED BY <2>2 DEF BinaryOf
<1>2. ASSUME NEW x \in lost
      PROVE  /\ StageAt(x) \in {"asked", "active", "put"} /\ StageAt(x)' = "failed"
             /\ inst'[x].alone = inst[x].alone
  <2>1. inst[x] \in InstallRecords /\ x \in Installs
    BY <1>0 DEF TypeOK
  <2>2. inst'[x] = Ended(inst[x], "lost", FALSE)
    BY <1>2 DEF Crash
  <2>3. inst'[x].pc = "lost" /\ inst'[x].alone = inst[x].alone
    BY <2>1, <2>2 DEF InstallRecords, Ended
  <2>4. StageAt(x) \in {"asked", "active", "put"}
    BY <1>2, StageIs DEF Working, WorkPcs
  <2> QED BY <2>1, <2>3, <2>4, NextStageIs
<1>3. ASSUME NEW x \in Installs \ lost
      PROVE  StageAt(x)' = StageAt(x) /\ inst'[x].alone = inst[x].alone
  <2>1. inst'[x] = inst[x]
    BY DEF Crash
  <2> QED BY <2>1, StageKept
<1>4. AloneOf' = AloneOf
  BY <1>2, <1>3 DEF AloneOf
<1>5. lost \in SUBSET {x \in Installs : StageOf[x] \in {"asked", "active", "put"}}
  BY <1>2 DEF StageOf
<1> HIDE DEF lost
<1>6. StageOf' = [x \in Installs |-> IF x \in lost THEN "failed" ELSE StageOf[x]]
  BY <1>2, <1>3, <1>5 DEF StageOf
<1>7. Atomic!Crash
  BY <1>1, <1>4, <1>5, <1>6 DEF Atomic!Crash
<1> QED BY <1>7 DEF Atomic!Next

LEMMA InitMaps == Init => Atomic!Init
<1> SUFFICES ASSUME Init PROVE Atomic!Init
  OBVIOUS
<1>1. BinaryOf = [n \in Names |-> NoFile]
  BY DEF Init, BinaryOf, BinaryAt
<1>2. \A x \in Installs : inst[x].pc = "none" /\ inst[x].alone = FALSE
  BY DEF Init
<1>3. StageOf = [x \in Installs |-> "asked"]
  BY <1>2, StageIs DEF StageOf
<1>4. AloneOf = [x \in Installs |-> FALSE]
  BY <1>2 DEF AloneOf
<1> QED BY <1>1, <1>3, <1>4 DEF Atomic!Init

LEMMA StepMaps == IInv /\ [Next]_vars => [Atomic!Next]_<<BinaryOf, StageOf, AloneOf>>
<1> SUFFICES ASSUME IInv, [Next]_vars
             PROVE  Atomic!Next \/ Unseen
  BY DEF Unseen
<1>1. CASE UNCHANGED vars
  <2>1. BinaryOf' = BinaryOf
    <3>1. \A m \in Names : ~tainted[m] /\ target[m] # NoFile => file[target[m]].exec
      BY DEF IInv, InstalledIsVerified, IsBinary
    <3>2. \A m \in Names : BinaryAt(m)' = BinaryAt(m)
      BY <1>1, <3>1, BinaryStays DEF vars
    <3> QED BY <3>2 DEF BinaryOf
  <2>2. StageOf' = StageOf
    BY <1>1, StageKept DEF vars, StageOf
  <2>3. AloneOf' = AloneOf
    BY <1>1 DEF vars, AloneOf
  <2> QED BY <2>1, <2>2, <2>3 DEF Unseen
<1>2. CASE Next
  BY <1>2, QuietMaps, CreateMaps, WriteMaps, ChmodMaps, RenameMaps, CopyStartMaps,
     CopyBlockMaps, CopyEndMaps, CrashMaps DEF Next, InstallStep
<1> QED BY <1>1, <1>2

\* An install that no other of its name overlaps is atomic, for any number of requests and
\* crashes: over all its steps the binary changes once, to the verified one, after which
\* success is reported, and a failure or a crash before leaves it as it was (406-447).
THEOREM InstallsAreAtomic == Spec => InstallsAtomically
<1>1. Init => Atomic!Init
  BY InitMaps
<1>2. IInv /\ [Next]_vars => [Atomic!Next]_<<BinaryOf, StageOf, AloneOf>>
  BY StepMaps
<1>3. Spec => []IInv
  BY Invariance
<1> QED BY <1>1, <1>2, <1>3, PTL DEF Spec, InstallsAtomically, Atomic!Spec

=============================================================================
