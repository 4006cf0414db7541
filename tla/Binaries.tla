------------------------------ MODULE Binaries ------------------------------
(***************************************************************************)
(* What InstallUMC promises of the binaries.  An install that no other of  *)
(* its name overlaps is atomic: at one moment the binary becomes the one   *)
(* that its checksum names, and if it fails before, or the engine crashes, *)
(* the binary stays what it was.  Only installs that overlap, or one that  *)
(* copies over the binary, may leave it unknown.  Success is reported only *)
(* of what was put in place.                                               *)
(***************************************************************************)
CONSTANTS
    Installs,       \* the requests
    Names,          \* UMC names
    NameOf,         \* what a request installs
    ArtifactOf,     \* the binary that its checksum names
    Absent,         \* no binary
    Unknown         \* anything, or nothing

VARIABLES
    binary,     \* binary[n]: what StartUMC of n would run
    stage,      \* stage[x]: how far the request x is
    alone       \* alone[x]: no other install of its name was under way with it

Init ==
    /\ binary = [n \in Names |-> Absent]
    /\ stage = [x \in Installs |-> "asked"]
    /\ alone = [x \in Installs |-> FALSE]

Rivals(x) ==
    {y \in Installs \ {x} : NameOf[y] = NameOf[x] /\ stage[y] \in {"active", "put"}}

Open(x) ==
    /\ stage[x] = "asked"
    /\ stage' = [stage EXCEPT ![x] = "active"]
    /\ alone' = [y \in Installs |-> IF y = x THEN Rivals(x) = {}
                                             ELSE alone[y] /\ y \notin Rivals(x)]
    /\ binary' = IF Rivals(x) = {} THEN binary ELSE [binary EXCEPT ![NameOf[x]] = Unknown]

\* It begins to copy over the binary.
Spoil(x) ==
    /\ stage[x] = "active"
    /\ binary' = [binary EXCEPT ![NameOf[x]] = Unknown]
    /\ UNCHANGED <<stage, alone>>

Put(x) ==
    /\ stage[x] = "active"
    /\ stage' = [stage EXCEPT ![x] = "put"]
    /\ binary' = [binary EXCEPT ![NameOf[x]] = IF alone[x] THEN ArtifactOf[x] ELSE Unknown]
    /\ UNCHANGED alone

Succeed(x) ==
    /\ stage[x] = "put"
    /\ stage' = [stage EXCEPT ![x] = "ok"]
    /\ UNCHANGED <<binary, alone>>

Fail(x) ==
    /\ stage[x] \in {"asked", "active"}
    /\ stage' = [stage EXCEPT ![x] = "failed"]
    /\ UNCHANGED <<binary, alone>>

\* Any of the requests that have not been answered are lost.
Crash ==
    /\ \E lost \in SUBSET {x \in Installs : stage[x] \in {"asked", "active", "put"}} :
          stage' = [x \in Installs |-> IF x \in lost THEN "failed" ELSE stage[x]]
    /\ UNCHANGED <<binary, alone>>

Next == Crash \/ \E x \in Installs : Open(x) \/ Spoil(x) \/ Put(x) \/ Succeed(x) \/ Fail(x)

Spec == Init /\ [][Next]_<<binary, stage, alone>>

=============================================================================
