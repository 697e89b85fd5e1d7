----------------------------- MODULE MCPackages -----------------------------
(***************************************************************************)
(* An instance of Packages: a package that requires a second one, a third  *)
(* that stands alone, and an application of flatpak.  Everything that can  *)
(* be installed at first meets every script of at most one call in the     *)
(* early phase and two in the main phase, out of a choice of calls.        *)
(***************************************************************************)
EXTENDS Packages, TLC

MCRequires == ("tool" :> {"lib"}) @@ ("lib" :> {}) @@ ("app" :> {})

MCSystems ==
    {s \in [Pkg -> Reason] :
        /\ s["app"] # "dependency"
        /\ s["tool"] # "absent" => s["lib"] # "absent"}

Add(p)  == [op |-> "add", pkg |-> p]
Drop(p) == [op |-> "remove", pkg |-> p]

MCScripts ==
    { [script_dependencies |-> e, main |-> m] :
        e \in { <<>>, <<Add("tool")>>, <<Drop("tool")>>, <<Add("app")>>, <<Drop("lib")>> },
        m \in { <<>>, <<Add("tool")>>, <<Add("lib")>>, <<Add("tool"), Drop("tool")>>,
                <<Drop("lib"), Add("tool")>>, <<Add("lib"), Add("app")>>,
                <<Drop("app"), Add("lib")>> } }

\* The script needs a package in its main phase, and asks for nothing else.
MCDependencyScripts ==
    {s \in MCScripts : s.script_dependencies = <<Add("tool")>> /\ s.main = <<>>}

=============================================================================
