---------------------------- MODULE MCSoongBuild ----------------------------
(***************************************************************************)
(* Instances for TLC of the mutators and data structures of soong_build.   *)
(* They share nothing, so one run explores each from its own initial       *)
(* states: part names the one, s1 to s10 stand for its variables, and      *)
(* those it does not have stay 0.                                          *)
(***************************************************************************)
EXTENDS Naturals, Sequences, FiniteSets, SequencesExt, TLC

CONSTANTS None, Unset, Invalid

VARIABLES part, s1, s2, s3, s4, s5, s6, s7, s8, s9, s10

mcvars == <<part, s1, s2, s3, s4, s5, s6, s7, s8, s9, s10>>

-----------------------------------------------------------------------------
(* Visibility: a library with two defaults modules and two packages, and a *)
(* user in each of two packages.                                           *)

Keyword(n) == [pkg |-> "visibility", name |-> n]
Rule(p, n) == [pkg |-> p, name |-> n]
Private == <<Keyword("private")>>
Override == <<Keyword("override")>>

VisModules == {"lib", "d1", "d2", "pa", "pab", "ua", "uc"}
VisKind == [m \in VisModules |-> CASE m \in {"d1", "d2"} -> "defaults"
                                   [] m \in {"pa", "pab"} -> "package"
                                   [] OTHER -> "module"]
VisDir == [m \in VisModules |-> CASE m \in {"lib", "d2", "pab"} -> "a/b"
                                  [] m = "uc" -> "c"
                                  [] OTHER -> "a"]
VisWithin == [p \in {"a", "a/b", "c", "vendor", "vendor/v"} |->
                CASE p = "a/b" -> <<"a/b", "a">>
                  [] p = "vendor/v" -> <<"vendor/v", "vendor">>
                  [] OTHER -> <<p>>]
VisUses == [m \in VisModules |-> IF m \in {"ua", "uc"} THEN {"lib"} ELSE {}]

Rules == {Keyword("private"), Keyword("public"), Keyword("override"),
          Rule("a", ""), Rule("c", "__subpackages__")}
LibVisibility ==
    {Unset, << >>, <<Invalid>>, <<Keyword("legacy_public")>>, <<Rule("vendor", "__subpackages__")>>,
     <<Rule("vendor/v", "")>>, <<Rule("c", "other")>>,
     <<Rule("", "__subpackages__"), Keyword("override")>>,
     <<Rule("a", ""), Rule("c", "")>>, <<Keyword("private"), Rule("c", "")>>}
    \cup {<<r>> : r \in Rules} \cup {<<Keyword("override"), r>> : r \in Rules}

VisInputs ==
    {[visibility |-> ("lib" :> v) @@ ("d1" :> v1) @@ ("d2" :> v2) @@ ("pa" :> va) @@ ("pab" :> vab)
                        @@ [m \in VisModules |-> Unset],
      defaults_visibility |-> [m \in VisModules |-> IF m = "d1" THEN dv ELSE Unset],
      defaults |-> ("lib" :> ds) @@ ("d1" :> dds) @@ [m \in VisModules |-> << >>]] :
        v \in LibVisibility,
        v1 \in {Unset, Private, <<Keyword("public")>>, <<Rule("c", "")>>, Override,
                <<Keyword("override"), Rule("a", "")>>},
        v2 \in {Unset, <<Rule("c", "")>>, Private},
        va \in {Unset, Private, <<Rule("c", "")>>},
        vab \in {Unset, Override, <<Rule("c", "__subpackages__")>>},
        dv \in {Unset, Private},
        ds \in {<< >>, <<"d1">>, <<"d1", "d2">>, <<"d2", "d1">>},
        dds \in {<< >>, <<"d2">>}}

V == INSTANCE Visibility WITH
    Modules <- VisModules, Kind <- VisKind, Dir <- VisDir, Within <- VisWithin, Uses <- VisUses,
    Inputs <- VisInputs,
    visibility <- s1, defaults_visibility <- s2, defaults <- s3, phase <- s4, visited <- s5,
    ruleMap <- s6, errors <- s7, declared <- s8

-----------------------------------------------------------------------------
(* Namespaces: files in nested directories that declare namespaces before  *)
(* or after modules, and import each other.                                *)

NsWithin == ("." :> <<".">>) @@ ("a" :> <<"a", ".">>) @@ ("a/b" :> <<"a/b", "a", ".">>)
    @@ ("a/b/c" :> <<"a/b/c", "a/b", "a", ".">>) @@ ("d" :> <<"d", ".">>) @@ ("d/e" :> <<"d/e", "d", ".">>)
Namespace(imports) == [kind |-> "namespace", imports |-> imports]
Module(n) == [kind |-> "module", name |-> n]

NsTrees ==
    {("." :> r) @@ ("a" :> a) @@ ("a/b" :> ab) @@ ("a/b/c" :> abc) @@ ("d" :> d) @@ ("d/e" :> e) :
        r \in {<< >>, <<Module("y")>>, <<Namespace(<< >>)>>},
        a \in {<< >>, <<Module("x")>>, <<Module("x"), Namespace(<< >>)>>,
               <<Namespace(<< >>), Namespace(<< >>)>>}
                \cup {<<Namespace(i), Module("y")>> : i \in {<< >>, <<"d">>, <<"a/b", "d">>}},
        ab \in {<< >>, <<Namespace(<< >>)>>, <<Module("x")>>},
        abc \in {<< >>, <<Module("x")>>, <<Namespace(<<"a">>), Module("y")>>, <<Module("y"), Module("x")>>},
        d \in {<< >>, <<Namespace(<<"a">>), Module("x")>>, <<Namespace(<<"a/b/c">>)>>, <<Module("y")>>},
        e \in {<< >>, <<Module("y"), Module("x")>>, <<Namespace(<< >>)>>}}

N == INSTANCE Namespaces WITH
    Dirs <- DOMAIN NsWithin, Root <- ".", Within <- NsWithin, Misnamed <- {"d/e"}, Names <- {"x", "y"},
    Trees <- NsTrees,
    files <- s1, parsed <- s2, namespacesByDir <- s3, namespaces <- s4, modules <- s5,
    visible <- s6, failed <- s7

-----------------------------------------------------------------------------
(* ApexVariants: three APEXes, two of which may be merged, over a chain or *)
(* a fan of three libraries.                                               *)

ApexInputs ==
    {[deps |-> d \cup e, same |-> d \cup (e \ other), key |-> k, unique |-> u,
      available |-> ("a" :> {}) @@ ("b" :> {"", "x1"}) @@ ("c" :> {"x1"}), enabled |-> on] :
        d \in {{<<"x1", "a">>, <<"x2", "a">>, <<"x3", "b">>},
               {<<"x1", "a">>, <<"x2", "b">>, <<"x3", "a">>},
               {<<"x1", "a">>, <<"x2", "a">>, <<"x3", "a">>}},
        e \in {{<<"a", "b">>, <<"b", "c">>}, {<<"a", "b">>, <<"a", "c">>}, {<<"b", "c">>}},
        other \in {{}, {<<"b", "c">>}},
        k \in {[a \in {"x1", "x2", "x3"} |-> "apex1"],
               [a \in {"x1", "x2", "x3"} |-> IF a = "x3" THEN "apex2" ELSE "apex1"]},
        u \in {{}, {"c"}, {"b"}},
        on \in {{"x1", "x2", "x3"}, {"x1", "x2"}}}

A == INSTANCE ApexVariants WITH
    Apexes <- {"x1", "x2", "x3"}, Libs <- {"a", "b", "c"}, Order <- <<"x1", "x2", "x3">>, Platform <- "",
    Inputs <- ApexInputs,
    g <- s1, phase <- s2, marked <- s3, apexVariations <- s4, directly <- s5,
    UniqueApexVariationsForDeps <- s6, visited <- s7, variants <- s8, links <- s9,
    NotAvailableForPlatform <- s10

-----------------------------------------------------------------------------
(* Overrides: an app and two overrides of it, each with or without source  *)
(* and prebuilt.                                                           *)

OvNames == {"app", "o1", "o2"}
OvInputs ==
    {i \in [source : {OvNames, {"o1", "o2"}, {"app", "o1"}}, disabled : {{}, {"app"}},
            prebuilt : [OvNames -> {None} \cup [prefer : BOOLEAN, srcs : BOOLEAN]]] :
        i.disabled \subseteq i.source /\ \A n \in OvNames : n \in i.source \/ i.prebuilt[n] # None}

O == INSTANCE Overrides WITH
    Names <- OvNames, Base <- ("o1" :> "app") @@ ("o2" :> "app"), Inputs <- OvInputs,
    in <- s1, phase <- s2, SourceExists <- s3, UsePrebuilt <- s4, deps <- s5, SkipInstall <- s6,
    overriddenByPrebuilt <- s7, overrides <- s8, variants <- s9, failed <- s10

-----------------------------------------------------------------------------
(* Sanitizers: a binary, a shared and two static libraries and an APEX,    *)
(* with pairs of sanitizers that exclude each other or do not.             *)

SanKind == ("bin" :> "binary") @@ ("dso" :> "shared") @@ ("l1" :> "static") @@ ("l2" :> "static")
              @@ ("apex" :> "apex")
SanEdges == {{<<"apex", "dso">>, <<"bin", "dso">>, <<"bin", "l1">>, <<"dso", "l1">>, <<"l1", "l2">>},
             {<<"apex", "bin">>, <<"bin", "l1">>, <<"l1", "dso">>, <<"dso", "l2">>, <<"l1", "l2">>}}

NoneSet(ts) == [s \in ToSet(ts) |-> "unset"]
OneSet(ts, k, value) == [NoneSet(ts) EXCEPT ![ts[k]] = value]
FewSet(ts) == {NoneSet(ts), OneSet(ts, 1, "on"), OneSet(ts, 2, "on"), OneSet(ts, 1, "off")}

\* What begin lets through: cfi is off beside the sanitizers that exclude it.
AnySet(ts) ==
    {f \in [ToSet(ts) -> {"unset", "on", "off"}] :
        "cfi" \in ToSet(ts) /\ f["cfi"] = "on" =>
            \A s \in {"asan", "fuzzer", "hwasan"} \cap ToSet(ts) : f[s] # "on"}

SanInput(ts, bin, dso, l1, l2, edges, never) ==
    [types |-> ts, deps |-> edges, never |-> never, device |-> TRUE,
     set |-> ("bin" :> bin) @@ ("dso" :> dso) @@ ("l1" :> l1) @@ ("l2" :> l2) @@ ("apex" :> NoneSet(ts))]

SanInputs == UNION {
    {SanInput(ts, bin, dso, l1, l2, edges, {}) :
        bin \in AnySet(ts), dso \in FewSet(ts), l1 \in FewSet(ts),
        l2 \in {NoneSet(ts), OneSet(ts, 1, "off"), OneSet(ts, 2, "on")}, edges \in SanEdges}
    \cup {SanInput(ts, bin, dso, NoneSet(ts), NoneSet(ts), edges, {"l1"}) :
            bin \in AnySet(ts), dso \in FewSet(ts), edges \in SanEdges} :
    ts \in {<<"asan", "cfi">>, <<"hwasan", "cfi">>, <<"fuzzer", "cfi">>, <<"cfi", "scs">>,
            <<"asan", "tsan">>}}

S == INSTANCE Sanitizers WITH
    Modules <- DOMAIN SanKind, Kind <- SanKind, Inputs <- SanInputs,
    in <- s1, done <- s2, marking <- s3, set <- s4, SanitizeDep <- s5, hidden <- s6, links <- s7

-----------------------------------------------------------------------------
(* DepSets: graphs of up to four nodes.                                    *)

D == INSTANCE DepSets WITH
    Directs <- {<< >>, <<"p">>, <<"q">>, <<"p", "r">>}, MaxNodes <- 4, MaxDeps <- 2,
    order <- s1, nodes <- s2, args <- s3

-----------------------------------------------------------------------------
(* RuleBuilder: rules of up to three commands.                             *)

R == INSTANCE RuleBuilder WITH
    Sources <- {"s"}, Made <- {"o", "t"}, DepFiles <- {"d1", "d2"}, InSboxDir <- {"t", "o", "d2"},
    MaxCommands <- 3, MaxCalls <- 7,
    commands <- s1, temporaries <- s2, flags <- s3, calls <- s4, rule <- s5

-----------------------------------------------------------------------------
(* Arch: devices with and without a native bridge, and a host with Windows *)
(* as a cross target.                                                      *)

Target(arch, lib, bridge, features) ==
    [arch |-> arch, lib |-> lib, bridge |-> bridge, features |-> features, arm |-> FALSE]
HostTargets == <<Target("x86_64", "lib64", FALSE, << >>), Target("x86", "lib32", FALSE, << >>)>>
Devices ==
    {<<Target("arm64", "lib64", FALSE, <<"v8">>), Target("arm", "lib32", FALSE, << >>)>>,
     HostTargets \o <<Target("arm64", "lib64", TRUE, << >>), Target("arm", "lib32", TRUE, << >>)>>,
     <<Target("arm", "lib32", FALSE, << >>)>>}

Props(enabled, multilib) == [enabled |-> enabled, compile_multilib |-> multilib]
On == Props("yes", None)
Off == Props("no", None)

Places ==
    {[p \in {} |-> On],
     <<"target", "windows">> :> On,
     <<"target", "android">> :> Props(None, "32"),
     <<"target", "host">> :> Props(None, "64"),
     <<"target", "not_windows">> :> Off,
     <<"target", "linux_glibc">> :> Props(None, "16"),
     <<"target", "host">> :> Off @@ <<"target", "linux_glibc">> :> On,
     <<"target", "linux_glibc">> :> Off @@ <<"multilib", "lib64">> :> On,
     <<"arch", "arm64">> :> Off @@ <<"target", "android", "arm64">> :> On,
     <<"multilib", "lib32">> :> Off @@ <<"target", "bionic", "arm">> :> On,
     <<"target", "android64">> :> Off @@ <<"target", "arm_on_x86">> :> On,
     <<"target", "native_bridge">> :> Off @@ <<"arch", "arm64", "v8">> :> Off}

ArchInputs ==
    {[targets |-> [os \in {"linux_glibc", "darwin", "linux_bionic", "windows", "android", "fuchsia"} |->
                    CASE os = "android" -> device
                      [] os = "linux_glibc" -> HostTargets
                      [] os = "windows" -> <<HostTargets[2]>>
                      [] OTHER -> << >>],
      classes |-> classes, common |-> kind = "sdk", useTargets |-> kind = "cc", default |-> default,
      images |-> images, bridge |-> bridge, recovery |-> recovery, prefer32 |-> prefer32,
      base |-> Props(None, multilib), props |-> props] :
        device \in Devices, classes \in {{}, {"Device"}, {"Host", "HostCross", "Device"}},
        kind \in {"cc", "app", "sdk"}, default \in {"both", "common", "common_first"},
        images \in {<< >>, <<"core", "recovery">>, <<"ramdisk">>},
        bridge \in BOOLEAN, recovery \in BOOLEAN, prefer32 \in BOOLEAN,
        multilib \in {None, "prefer32"}, props \in Places}

C == INSTANCE Arch WITH
    Inputs <- ArchInputs,
    in <- s1, pc <- s2, variants <- s3, deps <- s4, errors <- s5

-----------------------------------------------------------------------------
Init ==
    \/ part = "visibility" /\ V!Init /\ s9 = 0 /\ s10 = 0
    \/ part = "namespaces" /\ N!Init /\ s8 = 0 /\ s9 = 0 /\ s10 = 0
    \/ part = "apexes" /\ A!Init
    \/ part = "overrides" /\ O!Init
    \/ part = "sanitizers" /\ S!Init /\ s8 = 0 /\ s9 = 0 /\ s10 = 0
    \/ /\ part = "depsets" /\ D!Init
       /\ s4 = 0 /\ s5 = 0 /\ s6 = 0 /\ s7 = 0 /\ s8 = 0 /\ s9 = 0 /\ s10 = 0
    \/ part = "rules" /\ R!Init /\ s6 = 0 /\ s7 = 0 /\ s8 = 0 /\ s9 = 0 /\ s10 = 0
    \/ part = "arch" /\ C!Init /\ s6 = 0 /\ s7 = 0 /\ s8 = 0 /\ s9 = 0 /\ s10 = 0

Next ==
    /\ UNCHANGED part
    /\ \/ part = "visibility" /\ V!Next /\ UNCHANGED <<s9, s10>>
       \/ part = "namespaces" /\ N!Next /\ UNCHANGED <<s8, s9, s10>>
       \/ part = "apexes" /\ A!Next
       \/ part = "overrides" /\ O!Next
       \/ part = "sanitizers" /\ S!Next /\ UNCHANGED <<s8, s9, s10>>
       \/ part = "depsets" /\ D!Next /\ UNCHANGED <<s4, s5, s6, s7, s8, s9, s10>>
       \/ part = "rules" /\ R!Next /\ UNCHANGED <<s6, s7, s8, s9, s10>>
       \/ part = "arch" /\ C!Next /\ UNCHANGED <<s6, s7, s8, s9, s10>>

Spec == Init /\ [][Next]_mcvars

-----------------------------------------------------------------------------
(* The properties, each stated in the module of its part.                  *)

\* Visibility: the rules enforced are those the Android.bp files declare
\* (android/visibility.go).
VisibilityExact == part = "visibility" => V!VisibilityExact

\* Namespaces: a name resolves by what the files declare, in whatever order they
\* are parsed (android/namespace.go).
NamesResolve == part = "namespaces" => N!NamesResolve

\* ApexVariants: each variant links the right variants of its dependencies
\* (android/apex.go).
ApexLinksExact == part = "apexes" => A!ApexLinksExact

\* Overrides: prebuilts and overriding modules replace what they should
\* (android/prebuilt.go, android/override_module.go).
OverridesExact == part = "overrides" => O!OverridesExact

\* Sanitizers: what a sanitized variant links is sanitized too (cc/sanitize.go).
SanitizersExact == part = "sanitizers" => S!SanitizersExact

\* DepSets: the flattened lists have the order asked for (android/depset.go).
DepSetOrdered == part = "depsets" => D!DepSetOrdered

\* RuleBuilder: a rule runs with the files it depends on (android/rule_builder.go).
RuleRuns == part = "rules" => R!RuleRuns

\* Arch: a module has the right variants (android/arch.go, android/image.go).
ArchVariantsExact == part = "arch" => C!ArchVariantsExact

=============================================================================
