------------------------------ MODULE MCLaunch -----------------------------
(***************************************************************************)
(* What a launch rests on, one part in every behaviour: a managed Java     *)
(* runtime, the components of an instance, and the launch plan itself.     *)
(***************************************************************************)
EXTENDS ManagedJava, ComponentResolution, LaunchPlan

CONSTANTS x, y, z, v20, v21, forge, neo, ms, off

VARIABLE part       \* which of them this behaviour is about

-----------------------------------------------------------------------------
\* Components: chains, a diamond, cycles, conflicts, requirements that come and go,
\* and a table that does not validate.
On(needs, excludes) ==
    [present |-> TRUE, required |-> FALSE, default |-> TRUE, requires |-> needs, conflicts |-> excludes]
Off(needs, excludes) == [On(needs, excludes) EXCEPT !.default = FALSE]
Must(needs, excludes) == [On(needs, excludes) EXCEPT !.required = TRUE]
Unlisted == [Off({}, {}) EXCEPT !.present = FALSE]
Three(cx, cy, cz) == [i \in Ids |-> CASE i = x -> cx [] i = y -> cy [] i = z -> cz]

MCManifests == {
    Three(On({y}, {}), Off({z}, {}), Off({}, {})),
    Three(Must({y, z}, {}), Off({}, {}), Off({}, {})),
    Three(Off({y}, {}), On({z}, {}), Off({y}, {})),
    Three(On({y}, {}), Off({}, {z}), On({}, {})),
    Three(Unlisted, On({}, {}), Must({}, {y})),
    Three(On({x}, {}), On({}, {}), On({}, {}))}

-----------------------------------------------------------------------------
\* Launches: a version before javaVersion and one with it, two loaders of which one
\* asks for a newer Java, and libraries for every outcome of the rules, one of them
\* listed twice, with and without its natives.
RuleOf(allow, here, feature) == [allow |-> allow, host |-> here, feature |-> feature]
Lib(id, rules, named) == [id |-> id, rules |-> rules, nativeName |-> named]

OldLibraries ==
    << Lib("asm", <<>>, FALSE),
       Lib("demo", <<RuleOf(TRUE, TRUE, "any"), RuleOf(FALSE, TRUE, "unset")>>, FALSE),
       Lib("objc", <<RuleOf(TRUE, FALSE, "any")>>, FALSE),
       Lib("lwjgl", <<RuleOf(FALSE, TRUE, "any"), RuleOf(TRUE, TRUE, "set"), RuleOf(FALSE, FALSE, "any")>>,
           TRUE) >>
NewLibraries ==
    << Lib("asm", <<RuleOf(TRUE, TRUE, "any")>>, FALSE), Lib("lwjgl", <<>>, TRUE),
       Lib("asm", <<RuleOf(TRUE, TRUE, "any")>>, FALSE) >>

MCMetadata ==
    [v \in Versions |->
        IF v = v20
        THEN [java |-> 0, minor |-> 20, patch |-> 4, libraries |-> OldLibraries, arguments |-> TRUE]
        ELSE [java |-> 21, minor |-> 21, patch |-> 0, libraries |-> NewLibraries, arguments |-> TRUE]]
MCMinimum == [l \in Loaders |-> IF l = forge THEN 8 ELSE 21]

BaseWith(v, l) == [version |-> v, loader |-> l, auth |-> Accounts]
MCBases == {BaseWith(v20, NoLoader), BaseWith(v20, forge), BaseWith(v20, neo),
            [BaseWith(v21, neo) EXCEPT !.auth = {ms}]}

Java(major, source) == [major |-> major, arch |-> TRUE, source |-> source]
Foreign(major) == [Java(major, "system") EXCEPT !.arch = FALSE]
Plain(managed, auto, first, second) ==
    [managed |-> managed, auto |-> auto, preferManaged |-> first, preferSystem |-> second,
     preferred |-> 0, selected |-> NoRuntime]
Default == Plain(TRUE, TRUE, TRUE, FALSE)
Machine(policy, explicit, managed, system) ==
    [policy |-> policy, explicit |-> explicit, managed |-> managed, system |-> system]
Usual == Machine(Default, NoRuntime, {Java(21, "managed")}, {Java(17, "system"), Foreign(21)})

MCHosts == {
    Usual,
    Machine(Default, NoRuntime, {}, {Java(8, "system")}),
    Machine(Plain(TRUE, FALSE, FALSE, TRUE), NoRuntime, {Java(17, "managed"), Java(21, "managed")},
            {Foreign(17), Java(21, "system")}),
    Machine([Plain(FALSE, FALSE, FALSE, FALSE) EXCEPT !.preferred = 21], NoRuntime,
            {Java(17, "managed")}, {Java(17, "system"), Java(21, "system")}),
    Machine(Default, Java(17, "explicit"), {Java(21, "managed")}, {}),
    Machine([Default EXCEPT !.selected = Java(17, "managed")], NoRuntime,
            {Java(17, "managed"), Java(21, "managed")}, {}),
    Machine(Plain(FALSE, TRUE, TRUE, FALSE), NoRuntime, {}, {})}

\* Transactions run on one of the hosts: they do not depend on it.
OneHost == updates' > 0 => host = Usual

-----------------------------------------------------------------------------
\* A part's initial states differ only in its own variables.
MCInit ==
    /\ JavaInit /\ CompInit /\ LaunchInit
    /\ part \in {"java", "components", "launch"}
    /\ part # "java" => runtime = Gone /\ cached = FALSE
    /\ part # "launch" => host = Usual /\ base = BaseWith(v20, NoLoader)

MCNext ==
    \/ part = "java" /\ JavaNext /\ UNCHANGED <<part, compVars, launchVars>>
    \/ part = "components" /\ CompNext /\ UNCHANGED <<part, javaVars, launchVars>>
    \/ part = "launch" /\ LaunchNext /\ OneHost /\ UNCHANGED <<part, javaVars, compVars>>

MCSpec == MCInit /\ [][MCNext]_<<part, javaVars, compVars, launchVars>>
=============================================================================
