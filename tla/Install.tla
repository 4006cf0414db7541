------------------------------ MODULE Install ------------------------------
(***************************************************************************)
(* InstallUMC: the download of a UMC's binary to a temporary file next to  *)
(* its place, the check of the stream's hash, and the rename.  Any number  *)
(* of requests install at once; those of one name share the temporary      *)
(* file, since its path depends on the name only.  A file is an inode: who *)
(* has it open goes on writing to it when it is renamed or removed.  The   *)
(* engine may crash, which ends its installs and leaves the files.         *)
(***************************************************************************)
EXTENDS Naturals

CONSTANTS
    Installs,       \* the requests
    Names,          \* UMC names
    NameOf,         \* NameOf[x]: what request x installs
    Artifacts,      \* binaries
    ArtifactOf,     \* ArtifactOf[x]: the one that the checksum of x names
    Bad,            \* a block that is none of theirs: corrupt, or a hole
    Blocks,         \* how many writes a binary takes
    Inodes,         \* files; bound: beyond them os.Create fails
    NoFile,         \* nothing at a path
    MaxCrashes      \* bound: crashes of the engine

ASSUME InstallAssumption ==
    /\ NameOf \in [Installs -> Names]
    /\ ArtifactOf \in [Installs -> Artifacts]
    /\ Bad \notin Artifacts
    /\ Blocks \in Nat \ {0}
    /\ NoFile \notin Inodes
    /\ Inodes # {}
    /\ MaxCrashes \in Nat

VARIABLES
    temp,       \* temp[n]: the file at ~/.underleaf/bin/<n>-serve.tmp
    target,     \* target[n]: the file at ~/.underleaf/bin/<n>-serve
    file,       \* file[i]: its blocks, whether it is executable, whether it was created
    inst,       \* inst[x]: the request x
    crashes,    \* how often the engine has crashed
    tainted     \* tainted[n]: the file may be none of the binaries (history, see Create)

vars == <<temp, target, file, inst, crashes, tainted>>

WorkPcs == {"copy", "chmod", "rename", "copyfile", "remove"}    \* past os.Create

InstallRecords ==
    [pc : {"none", "get", "create", "ok", "failed", "left", "lost"} \cup WorkPcs,
     fd : Inodes,           \* tempFile, in copyFile sourceFile
     dst : Inodes,          \* destFile
     off : 0 .. Blocks,     \* blocks written
     intact : BOOLEAN,      \* the hash so far is that of the artifact
     err : BOOLEAN,         \* what is returned after the deferred os.Remove
     alone : BOOLEAN]       \* no other install of the name was under way with it (history)

FileRecords == [data : [1 .. Blocks -> Artifacts \cup {Bad}], exec : BOOLEAN, used : BOOLEAN]

TypeOK ==
    /\ temp \in [Names -> Inodes \cup {NoFile}]
    /\ target \in [Names -> Inodes \cup {NoFile}]
    /\ file \in [Inodes -> FileRecords]
    /\ inst \in [Installs -> InstallRecords]
    /\ crashes \in 0 .. MaxCrashes
    /\ tainted \in [Names -> BOOLEAN]

AnInode == CHOOSE i \in Inodes : TRUE
Empty   == [b \in 1 .. Blocks |-> Bad]

Init ==
    /\ temp = [n \in Names |-> NoFile]
    /\ target = [n \in Names |-> NoFile]
    /\ file = [i \in Inodes |-> [data |-> Empty, exec |-> FALSE, used |-> FALSE]]
    /\ inst = [x \in Installs |->
                 [pc |-> "none", fd |-> AnInode, dst |-> AnInode, off |-> 0, intact |-> TRUE,
                  err |-> FALSE, alone |-> FALSE]]
    /\ crashes = 0
    /\ tainted = [n \in Names |-> FALSE]

Working(x) == inst[x].pc \in WorkPcs
Others(x)  == {y \in Installs \ {x} : NameOf[y] = NameOf[x] /\ Working(y)}

-----------------------------------------------------------------------------
Goto(x, pc) == inst' = [inst EXCEPT ![x].pc = pc]

\* r past its writes, which nobody asks for any more.
Ended(r, pc, err) == [r EXCEPT !.pc = pc, !.err = err, !.off = 0, !.intact = TRUE]

\* An error after os.Create: the deferred os.Remove comes next.
Abandon(x) == inst' = [inst EXCEPT ![x] = Ended(inst[x], "remove", TRUE)]

\* The route and InstallUMC check name, URL, scheme and checksum.
Begin(x) ==
    /\ inst[x].pc = "none"
    /\ Goto(x, "get") \/ Goto(x, "failed")
    /\ UNCHANGED <<temp, target, file, crashes, tainted>>

\* http.Get, its status, and MkdirAll before it.
Get(x) ==
    /\ inst[x].pc = "get"
    /\ Goto(x, "create") \/ Goto(x, "failed")
    /\ UNCHANGED <<temp, target, file, crashes, tainted>>

\* os.Create on a path where i is, or for which i is made.
Opened(i) == [file EXCEPT ![i] = [data |-> Empty, exec |-> @.exec, used |-> TRUE]]

\* Mutant: the file is opened without O_CREATE.
NotCreated(p) == {p}

\* What os.Create opens at a path where p is.
Openable(p) == IF p = NoFile THEN {i \in Inodes : ~file[i].used} ELSE {p}

Create(x) ==
    /\ inst[x].pc = "create"
    /\ \E i \in Openable(temp[NameOf[x]]) :
          /\ file' = Opened(i)
          /\ temp' = [temp EXCEPT ![NameOf[x]] = i]
          /\ inst' = [y \in Installs |->
                CASE y = x         -> [inst[x] EXCEPT !.pc = "copy", !.fd = i, !.alone = (Others(x) = {})]
                  [] y \in Others(x) -> [inst[y] EXCEPT !.alone = FALSE]
                  [] OTHER         -> inst[y]]
    /\ tainted' = [tainted EXCEPT ![NameOf[x]] = @ \/ Others(x) # {}]
    /\ UNCHANGED <<target, crashes>>

CreateFails(x) ==
    /\ inst[x].pc = "create"
    /\ Goto(x, "failed")
    /\ UNCHANGED <<temp, target, file, crashes, tainted>>

\* A write of io.Copy to the file and to the hash: the stream may be corrupt.
Write(x) ==
    /\ inst[x].pc = "copy"
    /\ inst[x].off < Blocks
    /\ \E block \in {ArtifactOf[x], Bad} :
          /\ file' = [file EXCEPT ![inst[x].fd].data[inst[x].off + 1] = block]
          /\ inst' = [inst EXCEPT ![x].off = @ + 1,
                                  ![x].intact = @ /\ block = ArtifactOf[x]]
    /\ UNCHANGED <<temp, target, crashes, tainted>>

\* Mutant: the checksum is only logged.
AnyStream(x) == TRUE

\* The hash of the stream is the checksum; the stream may have ended early.
ChecksumMatches(x) == inst[x].off = Blocks /\ inst[x].intact

\* The end of the stream, Close, and the comparison.
Verify(x) ==
    /\ inst[x].pc = "copy"
    /\ ChecksumMatches(x)
    /\ Goto(x, "chmod")
    /\ UNCHANGED <<temp, target, file, crashes, tainted>>

\* The checksum does not match, or the download, a write or Close fails.
VerifyFails(x) ==
    /\ inst[x].pc = "copy"
    /\ Abandon(x)
    /\ UNCHANGED <<temp, target, file, crashes, tainted>>

Chmod(x) ==
    /\ inst[x].pc = "chmod"
    /\ LET i == temp[NameOf[x]] IN
          \/ i # NoFile /\ file' = [file EXCEPT ![i].exec = TRUE] /\ Goto(x, "rename")
          \/ UNCHANGED file /\ Abandon(x)
    /\ UNCHANGED <<temp, target, crashes, tainted>>

Installed(x) == inst' = [inst EXCEPT ![x] = Ended(inst[x], "remove", FALSE)]

\* What is at the path of the temporary file takes the place of the binary.
Rename(x) ==
    /\ inst[x].pc = "rename"
    /\ temp[NameOf[x]] # NoFile
    /\ target' = [target EXCEPT ![NameOf[x]] = temp[NameOf[x]]]
    /\ temp' = [temp EXCEPT ![NameOf[x]] = NoFile]
    /\ Installed(x)
    /\ tainted' = [tainted EXCEPT ![NameOf[x]] = @ /\ ~inst[x].alone]
    /\ UNCHANGED <<file, crashes>>

\* It fails for lack of permission; or it fails otherwise, as without a temporary file,
\* and copyFile cannot open its files.
RenameFails(x) ==
    /\ inst[x].pc = "rename"
    /\ Abandon(x)
    /\ UNCHANGED <<temp, target, file, crashes, tainted>>

\* It fails otherwise, and copyFile opens both files, which empties the installed one.
CopyStart(x) ==
    /\ inst[x].pc = "rename"
    /\ temp[NameOf[x]] # NoFile
    /\ \E i \in Openable(target[NameOf[x]]) :
          /\ file' = Opened(i)
          /\ target' = [target EXCEPT ![NameOf[x]] = i]
          /\ inst' = [inst EXCEPT ![x] = [@ EXCEPT !.pc = "copyfile", !.off = 0,
                                          !.fd = temp[NameOf[x]], !.dst = i]]
    /\ tainted' = [tainted EXCEPT ![NameOf[x]] = TRUE]
    /\ UNCHANGED <<temp, crashes>>

CopyBlock(x) ==
    /\ inst[x].pc = "copyfile"
    /\ inst[x].off < Blocks
    /\ LET b == inst[x].off + 1 IN
          file' = [file EXCEPT ![inst[x].dst].data[b] = file[inst[x].fd].data[b]]
    /\ inst' = [inst EXCEPT ![x].off = @ + 1]
    /\ UNCHANGED <<temp, target, crashes, tainted>>

\* os.Stat of the temporary file and Chmod of the binary to its mode.
CopyEnd(x) ==
    /\ inst[x].pc = "copyfile"
    /\ inst[x].off = Blocks
    /\ temp[NameOf[x]] # NoFile
    /\ file' = [file EXCEPT ![target[NameOf[x]]].exec = file[temp[NameOf[x]]].exec]
    /\ Installed(x)
    /\ tainted' = [tainted EXCEPT ![NameOf[x]] = ~inst[x].alone]
    /\ UNCHANGED <<temp, target, crashes>>

CopyFails(x) ==
    /\ inst[x].pc = "copyfile"
    /\ Abandon(x)
    /\ UNCHANGED <<temp, target, file, crashes, tainted>>

\* Mutant: nothing is removed after an error.
KeptOnError(x) == IF inst[x].err THEN temp ELSE [temp EXCEPT ![NameOf[x]] = NoFile]

Removed(x) == [temp EXCEPT ![NameOf[x]] = NoFile]

\* The deferred os.Remove of whatever is at the path, and the return.
Remove(x) ==
    /\ inst[x].pc = "remove"
    /\ temp' = Removed(x)
    /\ Goto(x, IF inst[x].err THEN "failed" ELSE "ok")
    /\ UNCHANGED <<target, file, crashes, tainted>>

\* It fails, at which nobody looks: the file stays for the next os.Create.
RemoveFails(x) ==
    /\ inst[x].pc = "remove"
    /\ temp[NameOf[x]] # NoFile
    /\ Goto(x, "left")
    /\ UNCHANGED <<temp, target, file, crashes, tainted>>

Crash ==
    /\ crashes < MaxCrashes
    /\ crashes' = crashes + 1
    /\ inst' = [x \in Installs |->
                  IF Working(x) \/ inst[x].pc \in {"get", "create"}
                  THEN Ended(inst[x], "lost", FALSE) ELSE inst[x]]
    /\ UNCHANGED <<temp, target, file, tainted>>

InstallStep(x) ==
    \/ Begin(x) \/ Get(x) \/ Create(x) \/ CreateFails(x) \/ Write(x) \/ Verify(x)
    \/ VerifyFails(x) \/ Chmod(x) \/ Rename(x) \/ RenameFails(x) \/ CopyStart(x)
    \/ CopyBlock(x) \/ CopyEnd(x) \/ CopyFails(x) \/ Remove(x)
    \/ RemoveFails(x)

Next == Crash \/ \E x \in Installs : InstallStep(x)

Spec == Init /\ [][Next]_vars

-----------------------------------------------------------------------------
Holds(i, a)  == \A b \in 1 .. Blocks : file[i].data[b] = a
IsBinary(i) == file[i].exec /\ \E a \in Artifacts : Holds(i, a)

\* The file that StartUMC would run is absent or complete, executable and one that a
\* checksum named (406-447), at every moment, also in the middle of an install and after
\* a crash, unless two installs of that name overlapped or the copy took the place of the
\* rename, and none has succeeded alone since.
InstalledIsVerified ==
    \A n \in Names : ~tainted[n] /\ target[n] # NoFile => IsBinary(target[n])

\* What the binaries see of the installs: the binary that is at its place, how far each
\* request is, and whether it is alone.
Content(data) == CHOOSE a \in Artifacts : \A b \in 1 .. Blocks : data[b] = a

BinaryAt(n) ==
    CASE tainted[n] -> Bad
      [] ~tainted[n] /\ target[n] = NoFile -> NoFile
      [] ~tainted[n] /\ target[n] # NoFile ->
            IF IsBinary(target[n]) THEN Content(file[target[n]].data) ELSE Bad

StageAt(x) ==
    CASE inst[x].pc \in {"none", "get", "create"} -> "asked"
      [] inst[x].pc \in WorkPcs \ {"remove"}       -> "active"
      [] inst[x].pc = "remove"                    -> IF inst[x].err THEN "active" ELSE "put"
      [] inst[x].pc = "ok"                        -> "ok"
      [] inst[x].pc = "left"                      -> IF inst[x].err THEN "failed" ELSE "ok"
      [] inst[x].pc \in {"failed", "lost"}        -> "failed"

BinaryOf == [n \in Names |-> BinaryAt(n)]
StageOf  == [x \in Installs |-> StageAt(x)]
AloneOf  == [x \in Installs |-> inst[x].alone]

\* An install that runs alone is atomic (406-447): over all its steps, failures and
\* crashes the binary changes once, to the verified one, and success is reported of it.
Atomic == INSTANCE Binaries WITH Absent <- NoFile, Unknown <- Bad,
                                 binary <- BinaryOf, stage <- StageOf, alone <- AloneOf
InstallsAtomically == Atomic!Spec

\* The temporary file goes with the last install of its name that returns (411), whatever
\* else fails and however they overlap; only a crash, or a removal that fails, leaves it.
TempRemoved ==
    \A n \in Names : temp[n] # NoFile =>
        \E x \in Installs : NameOf[x] = n /\ (Working(x) \/ inst[x].pc \in {"left", "lost"})

\* "Verify checksum (always)" (425), "atomically install" (432): what is renamed to the
\* binary's place is what the checksum was compared with.
VerifiedIsRenamed ==
    \A x \in Installs : inst[x].pc = "rename" /\ temp[NameOf[x]] # NoFile =>
        Holds(temp[NameOf[x]], ArtifactOf[x])

=============================================================================
