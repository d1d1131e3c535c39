-------------------------------- MODULE Arch --------------------------------
(***************************************************************************)
(* The variants of a module for operating systems, images and              *)
(* architectures (android/arch.go, android/image.go): three bottom-up      *)
(* mutators that run one after the other, each on the variants that the    *)
(* one before made, and rewrite the properties of each variant from the    *)
(* places of its module that apply to it.                                  *)
(*                                                                         *)
(* A mutator visits the variants of a module in order and touches no other *)
(* module, so it is one step.  Of the properties, those that decide about  *)
(* variants are followed: enabled and compile_multilib.  The module is     *)
(* one that InitAndroidArchModule made.                                    *)
(***************************************************************************)
EXTENDS Naturals, Sequences, SequencesExt

CONSTANTS
    None,      \* a property that is not set
    Inputs     \* the modules, with the configurations they are built for

VARIABLES
    in,        \* an element of Inputs
    pc,        \* the mutator that is next
    variants,  \* the variants of the module
    deps,      \* the dependencies of the CommonOS variant: names of variants
    errors     \* whether archMutator reported an error

vars == <<in, pc, variants, deps, errors>>

\* in.targets[os]: the targets of the configuration; in.classes: the classes that
\* the kind of module and host_supported and device_supported allow, in.common:
\* CreateCommonOSVariant; in.useTargets: UseTargetVariants; in.default:
\* Default_multilib; in.images: what the module asks imageMutator for;
\* in.bridge: native_bridge_supported; in.recovery: it is installed in recovery
\* or in a ramdisk; in.prefer32; in.base: the properties outside arch, multilib
\* and target; in.props[place]: those of the places that have some.

OsTypeList == <<"linux_glibc", "darwin", "linux_bionic", "windows", "android", "fuchsia">>
CommonOS == "common_os"

Class(os) == CASE os \in {"linux_glibc", "darwin", "linux_bionic"} -> "Host"
               [] os = "windows" -> "HostCross"
               [] os \in {"android", "fuchsia"} -> "Device"
               [] OTHER -> "Generic"

OnHost(os) == Class(os) \in {"Host", "HostCross"}
Linux(os) == os \in {"android", "linux_glibc", "linux_bionic"}
Bionic(os) == os \in {"android", "linux_bionic"}

commonTarget == [arch |-> "common", lib |-> "", bridge |-> FALSE, features |-> << >>, arm |-> FALSE]

\* The target is None until archMutator sets it, with the operating system that is
\* the default of enabled.
Enabled(x) ==
    IF x.props.enabled = None THEN ~(x.target # None /\ x.os = "windows")
    ELSE x.props.enabled = "yes"

Split(x, variation) == [x EXCEPT !.name = Append(@, variation)]

-----------------------------------------------------------------------------
(* The properties of a variant.                                            *)

\* appendProperties, for properties with one value.
appendProperties(props, place) ==
    IF place \notin DOMAIN in.props THEN props
    ELSE [f \in DOMAIN props |-> IF in.props[place][f] = None THEN props[f] ELSE in.props[place][f]]

Extend(props, places) == FoldLeft(appendProperties, props, places)

When(condition, place) == IF condition THEN <<place>> ELSE << >>

Android64 == \E t \in ToSet(in.targets["android"]) : t.lib = "lib64"

setOSProperties(props, os) == Extend(props,
    When(OnHost(os), <<"target", "host">>)
    \o When(Linux(os), <<"target", "linux">>)
    \o When(Bionic(os), <<"target", "bionic">>)
    \o <<<<"target", os>>>>
    \o When(OnHost(os) /\ os # "windows", <<"target", "not_windows">>)
    \o When(Class(os) = "Device",
            <<"target", IF Android64 THEN "android64" ELSE "android32">>))

hasAndroidArch(arch) == \E t \in ToSet(in.targets["android"]) : t.arch = arch
hasArmAndroidArch == \E t \in ToSet(in.targets["android"]) : t.arch = "arm" /\ ~t.bridge

\* t.features: its variant, its CPU variant when that is another, and its features;
\* t.arm: whether it has the ABI of arm.
OnX86(t, x86) ==
    \/ t.arch = x86 /\ (t.arm \/ hasArmAndroidArch)
    \/ t.arch = "arm" /\ hasAndroidArch(x86)

setArchProperties(props, os, t) == Extend(props,
    (IF t.arch = "common" THEN << >>
     ELSE <<<<"arch", t.arch>>>>
          \o [i \in DOMAIN t.features |-> <<"arch", t.arch, t.features[i]>>]
          \o <<<<"multilib", t.lib>>>>
          \o When(Linux(os), <<"target", "linux", t.arch>>)
          \o When(Bionic(os), <<"target", "bionic", t.arch>>)
          \o <<<<"target", os, t.arch>>>>)
    \o When(Class(os) = "Device" /\ OnX86(t, "x86"), <<"target", "arm_on_x86">>)
    \o When(Class(os) = "Device" /\ OnX86(t, "x86_64"), <<"target", "arm_on_x86_64">>)
    \o When(os = "android" /\ t.bridge, <<"target", "native_bridge">>))

-----------------------------------------------------------------------------
(* The operating systems.                                                  *)

moduleOSList == SelectSeq(OsTypeList, LAMBDA os : Class(os) \in in.classes /\ in.targets[os] # << >>)

osVariant(x, os) ==
    [Split(x, os) EXCEPT !.os = os, !.props = setOSProperties(@, os)]

osMutator ==
    /\ pc = "os"
    /\ pc' = "image"
    /\ LET x == Head(variants)
           list == moduleOSList \o When(in.common, CommonOS)
       IN  IF moduleOSList = << >>
           THEN variants' = <<[x EXCEPT !.props.enabled = "no"]>> /\ deps' = {}
           ELSE /\ variants' = [i \in DOMAIN list |-> osVariant(x, list[i])]
                /\ deps' = IF ~in.common THEN {}
                           ELSE {y.name : y \in {z \in ToSet(Front(variants')) : Enabled(z)}}
    /\ UNCHANGED <<in, errors>>

\* Blueprint: a dependency of a variant that a mutator did not split is on the
\* first variant it made of the other one.
SplitBy(Made(_)) ==
    /\ variants' = FlattenSeq([i \in DOMAIN variants |-> Made(variants[i])])
    /\ deps' = {Head(Made(x)).name : x \in {y \in ToSet(variants) : y.name \in deps}}

-----------------------------------------------------------------------------
(* The images.                                                             *)

imageVariants(x) ==
    IF x.os # "android" \/ in.images = << >> THEN <<x>>
    ELSE [i \in DOMAIN in.images |-> [Split(x, in.images[i]) EXCEPT !.image = in.images[i]]]

imageMutator ==
    /\ pc = "image"
    /\ pc' = "arch"
    /\ SplitBy(imageVariants)
    /\ UNCHANGED <<in, errors>>

-----------------------------------------------------------------------------
(* The architectures.                                                      *)

filterMultilibTargets(targets, lib) == SelectSeq(targets, LAMBDA t : t.lib = lib)

\* All of them, those of the preferred width first.
preferred(targets, prefer32) ==
    LET lib32 == filterMultilibTargets(targets, "lib32")
        lib64 == filterMultilibTargets(targets, "lib64")
    IN  IF prefer32 THEN lib32 \o lib64 ELSE lib64 \o lib32

firstTarget(targets, prefer32) ==
    IF targets = << >> THEN << >> ELSE <<Head(preferred(targets, prefer32))>>

\* The targets are of one operating system.
getCommonTargets(targets) == When(targets # << >>, commonTarget)

Multilibs == {"common", "common_first", "both", "32", "64", "first", "prefer32"}

decodeMultilibTargets(multilib, targets) ==
    CASE multilib = "common" -> getCommonTargets(targets)
      [] multilib = "common_first" -> getCommonTargets(targets) \o firstTarget(targets, in.prefer32)
      [] multilib = "both" -> preferred(targets, in.prefer32)
      [] multilib = "32" -> filterMultilibTargets(targets, "lib32")
      [] multilib = "64" -> filterMultilibTargets(targets, "lib64")
      [] multilib = "first" -> firstTarget(targets, in.prefer32)
      [] multilib = "prefer32" ->
            IF filterMultilibTargets(targets, "lib32") # << >>
            THEN filterMultilibTargets(targets, "lib32") ELSE filterMultilibTargets(targets, "lib64")
      [] OTHER -> << >>

\* The first value that is set.
FirstSet(s) == IF \A i \in DOMAIN s : s[i] = None THEN None
               ELSE s[CHOOSE i \in DOMAIN s : s[i] # None /\ \A j \in 1 .. i - 1 : s[j] = None]

multilibAt(place) == IF place \in DOMAIN in.props THEN in.props[place].compile_multilib ELSE None

\* The multilib of the variants and that of the targets each of them handles.
decodeMultilib(x) ==
    LET multilib == FirstSet(<<
            CASE Class(x.os) = "Device" -> multilibAt(<<"target", "android">>)
              [] OnHost(x.os) -> multilibAt(<<"target", "host">>)
              [] OTHER -> None,
            x.props.compile_multilib, in.default>>)
    IN  CASE in.useTargets -> <<multilib, None>>
          [] multilib = in.default -> <<in.default, "first">>
          [] OTHER -> <<in.default, multilib>>

\* Mutant: the native bridge targets are kept in every image.
osTargetsEveryImage(x) ==
    LET all == IF x.os = None THEN << >> ELSE in.targets[x.os]
        own == IF x.os = "android" /\ ~in.bridge
               THEN SelectSeq(all, LAMBDA t : ~t.bridge) ELSE all
    IN  IF x.os = "android" /\ (in.recovery \/ x.image \in {"recovery", "ramdisk"})
        THEN <<Head(own)>> ELSE own

osTargets(x) ==
    LET all == IF x.os = None THEN << >> ELSE in.targets[x.os]
        own == IF x.os = "android" /\ ~(in.bridge /\ x.image = "core")
               THEN SelectSeq(all, LAMBDA t : ~t.bridge) ELSE all
    IN  IF x.os = "android" /\ (in.recovery \/ x.image \in {"recovery", "ramdisk"})
        THEN <<Head(own)>> ELSE own

DevicePrimaryArchType == Head(in.targets["android"]).arch

filterToArch(x, targets) ==
    IF x.image = "recovery"
    THEN SelectSeq(targets, LAMBDA t : t.arch = DevicePrimaryArchType) ELSE targets

multiTargets(x) ==
    LET extra == decodeMultilib(x)[2]
    IN  IF extra = None THEN << >>
        ELSE filterToArch(x, decodeMultilibTargets(extra, osTargets(x)))

addTargetProperties(x, t, multi, primary) ==
    [x EXCEPT !.target = t, !.multi = multi, !.primary = primary]

archVariants(x) ==
    LET targets == filterToArch(x, decodeMultilibTargets(decodeMultilib(x)[1], osTargets(x)))
    IN  CASE x.os = CommonOS -> <<addTargetProperties(x, commonTarget, << >>, TRUE)>>
          [] targets = << >> -> <<[x EXCEPT !.props.enabled = "no"]>>
          [] OTHER -> [i \in DOMAIN targets |->
                [addTargetProperties(Split(x, <<targets[i].bridge, targets[i].arch>>), targets[i],
                                     multiTargets(x), i = 1)
                    EXCEPT !.props = setArchProperties(@, x.os, targets[i])]]

archMutator ==
    /\ pc = "arch"
    /\ pc' = "done"
    /\ SplitBy(archVariants)
    /\ errors' = \E x \in ToSet(variants) :
                    /\ x.os # CommonOS
                    /\ ~(ToSet(decodeMultilib(x)) \subseteq Multilibs \cup {None})
    /\ UNCHANGED in

-----------------------------------------------------------------------------
Init ==
    /\ in \in Inputs
    /\ pc = "os"
    /\ variants = <<[name |-> << >>, os |-> None, image |-> "", target |-> None, multi |-> << >>,
                     primary |-> FALSE, props |-> in.base]>>
    /\ deps = {}
    /\ errors = FALSE

Next == osMutator \/ imageMutator \/ archMutator

Spec == Init /\ [][Next]_vars

-----------------------------------------------------------------------------
(* Properties.                                                             *)

Family(x) == {y \in ToSet(variants) : y.os = x.os /\ y.image = x.image /\ y.target # None}

\* What GetOsSpecificVariantsOfCommonOSVariant returns.
OsSpecific == {x \in ToSet(variants) : x.name \in deps /\ Enabled(x)}

\* A variant is for a target of the configuration that its module supports: the
\* native bridge only in the core image of a module that says so, and in recovery
\* and in ramdisks only the primary architecture of the device.
Fits(x) ==
    /\ Class(x.os) \in in.classes
    /\ x.target \in ToSet(in.targets[x.os]) \cup {commonTarget}
    /\ x.target.bridge => in.bridge /\ x.image = "core"
    /\ x.os = "android" /\ (in.recovery \/ x.image \in {"recovery", "ramdisk"}) =>
            x.target.arch \in {DevicePrimaryArchType, "common"}
    /\ x.image = "recovery" => x.target.arch # "common"
    /\ ToSet(x.multi) \subseteq ToSet(in.targets[x.os]) \cup {commonTarget}

\* When the mutators are done no two variants have one name, each is for a target
\* that fits its module, and each family of variants of one operating system and
\* image has exactly one primary variant, not of the native bridge, of the preferred
\* width if it is there.  A family is left out only when compile_multilib names a
\* width the configuration lacks, is wrong, which is reported, or when it is a common
\* variant in recovery.  The most specific place that sets enabled decides.
\* What the CommonOS variant is given are enabled primary variants, one for each
\* operating system it was not disabled for before the architectures were known.
ArchVariantsExact ==
    pc = "done" =>
        /\ \A i, j \in DOMAIN variants : variants[i].name = variants[j].name => i = j
        /\ \A x \in ToSet(variants) : x.target # None /\ x.os # CommonOS =>
            /\ Fits(x)
            /\ \E p \in Family(x) :
                /\ {y \in Family(x) : y.primary} = {p}
                /\ ~p.target.bridge
                /\ p.target.lib = "lib32" =>
                    \/ in.prefer32
                    \/ decodeMultilib(p)[1] \in {"32", "prefer32"}
                    \/ \A y \in Family(x) : y.target.lib # "lib64"
            /\ LET last == <<"target", x.os, x.target.arch>>
               IN  /\ last \in DOMAIN in.props /\ in.props[last].enabled # None
                   /\ x.target.arch # "common" /\ ~x.target.bridge
                   => Enabled(x) = (in.props[last].enabled = "yes")
        /\ \A x \in ToSet(variants) : x.target = None =>
            /\ ~Enabled(x)
            /\ \/ x.os = None
               \/ x.image = "recovery"
               \/ errors
               \/ decodeMultilib(x)[1] = "32" /\ \A t \in ToSet(osTargets(x)) : t.lib # "lib32"
               \/ decodeMultilib(x)[1] = "64" /\ \A t \in ToSet(osTargets(x)) : t.lib # "lib64"
        /\ \A x, y \in OsSpecific : x.os = y.os => x = y
        /\ \A x \in OsSpecific : x.primary /\ x.os # CommonOS
        /\ in.common => \A x \in ToSet(variants) :
                /\ x.os \notin {CommonOS, None, "android"} /\ x.primary /\ Enabled(x)
                /\ setOSProperties(in.base, x.os).enabled # "no"
                => x \in OsSpecific

=============================================================================
