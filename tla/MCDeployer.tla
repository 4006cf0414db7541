----------------------------- MODULE MCDeployer -----------------------------
(* Small instances of Deployer for TLC. *)
EXTENDS Deployer, TLC

CONSTANTS i1, i2, i3, i4, v1, v2

OneService  == {v1}
TwoServices == {v1, v2}
TwoIds      == {i1, i2}
ThreeIds    == {i1, i2, i3}
FourIds     == {i1, i2, i3, i4}

\* A name is "<slug>-<service>"; those of "app-web" begin with "app-" as well.
AppSlugs == {"app", "app-web"}
Names    == Slugs \X Services
NameOf   == [sv \in Slugs \X Services |-> sv]
OwnNames == [s \in Slugs |->
               {n \in Names : n[1] = s \/ (s = "app" /\ n[1] = "app-web")}]

\* What runs already: another application, or the service without its label.
Standing(slug, label) == [i \in {i1} |-> [name |-> <<slug, v1>>, slug |-> label]]
OldWeb == Standing("app-web", "app-web")
OldApp == Standing("app", NoSlug)

Apply(services) == [op |-> "apply", slug |-> "app", services |-> services]
Delete(slug)    == [op |-> "delete", slug |-> slug, services |-> {}]

\* Two applies of one application, the newer without its second service, and the delete.
ApplyApplyDelete == [j \in {"a1", "a2", "d1"} |->
                       CASE j = "a1" -> Apply(Services)
                         [] j = "a2" -> Apply({v1})
                         [] OTHER -> Delete("app")]
ApplyDelete == [j \in {"a1", "d1"} |-> IF j = "a1" THEN Apply(Services) ELSE Delete("app")]

Symmetry == Permutations(Ids \ DOMAIN Old)

=============================================================================
