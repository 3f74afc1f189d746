------------------------------ MODULE Composition ------------------------------
(***************************************************************************)
(* Composition (composition/resolver.py, parser.py, canonical.py): a root  *)
(* scenario and the modules it names are read within bounds, the           *)
(* declarations and references of each module are moved into the namespace *)
(* of its alias, and all is merged into one scenario with an identity that *)
(* does not depend on where the files were.                                *)
(*                                                                         *)
(* A name is a sequence of its components between dots.  Hashes are        *)
(* perfect.  Files may grow while they are read.                           *)
(***************************************************************************)
EXTENDS Integers, SequencesExt, FiniteSetsExt

CONSTANTS
  Layouts,     \* [root, modules: aliases to sources, files: sources to files]
  MaxModules, MaxFile, MaxAggregate

Physical == "@composition"

(* A declaration of a section, with the references within it: [kind, to].  *)
(* A file: what lstat says it is, its size, and the module in it.          *)
Decl(section, name, refs) == [section |-> section, name |-> name, refs |-> refs]
Reference(kind, to) == [kind |-> kind, to |-> to]

(* What a layout is.  A file declares a name once in a section, YAML and   *)
(* the parsers see to that; a resource is not named by a path; and nobody  *)
(* writes the coordinates that composition reserves for itself.            *)
IsName(name) ==
  name \in Seq(Range(name)) /\ name # <<>> /\ Physical \notin Range(name)
DeclaredOnce(declares) ==
  /\ IsFiniteSet(declares)
  /\ \A d \in declares :
       /\ d = Decl(d.section, d.name, d.refs) /\ IsName(d.name)
       /\ d.section = "resources" => Len(d.name) = 1
       /\ \A ref \in d.refs : ref = Reference(ref.kind, ref.to) /\ IsName(ref.to)
  /\ \A d, e \in declares : d.section = e.section /\ d.name = e.name => d = e

LayoutsAreWellFormed ==
  /\ MaxFile \in Nat /\ MaxAggregate \in Nat
  /\ \A l \in Layouts :
       /\ l = [root |-> l.root, modules |-> l.modules, files |-> l.files]
       /\ DeclaredOnce(l.root) /\ "root" \notin DOMAIN l.files
       /\ IsFiniteSet(DOMAIN l.files)
       /\ DOMAIN l.modules \cap {"root", "none", Physical} = {}
       /\ \A s \in DOMAIN l.files : DeclaredOnce(l.files[s].declares)

VARIABLES
  layout, sizes,    \* sizes of files now
  phase, code,
  reading,          \* the alias whose file is being read
  loaded,           \* aliases to declarations
  accepted,         \* bytes of each file that was accepted
  composed,         \* declarations of the merged scenario
  first             \* what an earlier layout was composed into

vars == <<layout, sizes, phase, code, reading, loaded, accepted, composed, first>>

Aliases == DOMAIN layout.modules
File(s) == layout.files[s]
Total == MapThenSumSet(LAMBDA s : accepted[s], DOMAIN accepted)

Refuse(c) ==
  /\ phase' = "refused" /\ code' = c
  /\ UNCHANGED <<layout, sizes, reading, loaded, accepted, composed, first>>

-----------------------------------------------------------------------------
(* Reading: the root, then the modules; the code takes aliases by name.    *)
(* The size is bounded before the file is read and once more as read.      *)
ReadRoot ==
  /\ phase = "root"
  /\ IF sizes["root"] > MaxFile THEN Refuse("bound")
     ELSE /\ accepted' = [accepted EXCEPT !["root"] = sizes["root"]]
          /\ IF Cardinality(Aliases) > MaxModules
             THEN phase' = "refused" /\ code' = "bound"
             ELSE phase' = "modules" /\ UNCHANGED code
          /\ UNCHANGED <<layout, sizes, reading, loaded, composed, first>>

(* Mutant: a module that was loaded is loaded again.                      *)
StatAgain(a) ==
  /\ phase = "modules" /\ reading = "none" /\ a \in Aliases
  /\ LET s == layout.modules[a] IN
       s \in DOMAIN layout.files /\ sizes[s] <= MaxFile /\ reading' = a
       /\ UNCHANGED <<layout, sizes, phase, code, loaded, accepted, composed, first>>

(* _secure_relative and the first half of _read_bounded.                   *)
Stat(a) ==
  /\ phase = "modules" /\ reading = "none" /\ a \in Aliases \ DOMAIN loaded
  /\ LET s == layout.modules[a] IN
       IF s \notin DOMAIN layout.files THEN Refuse("missing")
       ELSE IF File(s).type # "file" THEN Refuse("type")
       ELSE IF sizes[s] > MaxFile THEN Refuse("bound")
       ELSE /\ reading' = a
            /\ UNCHANGED <<layout, sizes, phase, code, loaded, accepted, composed, first>>

(* Mutant: the size is not looked at again.                                *)
FitsAsStated(s) == TRUE

Fits(s) == sizes[s] <= MaxFile /\ Total + sizes[s] <= MaxAggregate

(* The rest of _read_bounded, the aggregate bound and parse_module.        *)
ReadModule ==
  /\ phase = "modules" /\ reading # "none"
  /\ LET s == layout.modules[reading] IN
       IF ~Fits(s) THEN Refuse("bound")
       ELSE IF File(s).identity # reading \/ File(s).declares = {} THEN Refuse("declaration")
       ELSE /\ loaded' = [a \in DOMAIN loaded \cup {reading} |->
                             IF a = reading THEN File(s).declares ELSE loaded[a]]
            /\ accepted' = [accepted EXCEPT ![s] = @ + sizes[s]]
            /\ reading' = "none"
            /\ UNCHANGED <<layout, sizes, phase, code, composed, first>>

-----------------------------------------------------------------------------
(* _qualified, _resource_reference and _namespace_module.                  *)
Qualified(a, name) == IF name[1] \in Aliases THEN name ELSE <<a>> \o name

(* Mutant: references between resources go through the namespaces.         *)
ResourceReferenceQualified(a, to) == Qualified(a, to)

ResourceReference(a, to) ==
  CASE to[1] \notin Aliases -> <<Physical, a>> \o to
    [] to[1] \in Aliases /\ Len(to) > 1 -> <<Physical>> \o to
    [] OTHER -> to

(* Mutant: a reference to the module itself is left as it is.              *)
RewrittenUnlessExpect(a, ref) ==
  CASE ref.kind = "$ref" -> ResourceReference(a, ref.to)
    [] ref.kind \in {"expect", "subflow_path"} -> ref.to
    [] OTHER -> Qualified(a, ref.to)

(* Mutant: the nodes of a path are rewritten like the step of a selector.  *)
RewrittenWithPaths(a, ref) ==
  IF ref.kind = "$ref" THEN ResourceReference(a, ref.to) ELSE Qualified(a, ref.to)

(* The identities of nodes are moved, and what selects a step by one; the  *)
(* nodes on the path to it (selector.subflow_path) are left as they are.   *)
Rewritten(a, ref) ==
  CASE ref.kind = "$ref" -> ResourceReference(a, ref.to)
    [] ref.kind = "subflow_path" -> ref.to
    [] OTHER -> Qualified(a, ref.to)

Coordinate(a, d) ==
  CASE d.section = "resources" -> <<Physical, a>> \o d.name
    [] d.section = "subflows" -> <<a>> \o d.name
    [] OTHER -> Qualified(a, d.name)

Entry(owner, d, at, refs) ==
  [owner |-> owner, section |-> d.section, name |-> d.name, at |-> at, refs |-> refs]

Namespaced(a) ==
  {Entry(a, d, Coordinate(a, d), {[ref EXCEPT !.to = Rewritten(a, ref)] : ref \in d.refs}) :
     d \in loaded[a]}

Merged ==
  {Entry("root", d, d.name, d.refs) : d \in layout.root} \cup UNION {Namespaced(a) : a \in Aliases}

(* _merge, and parse_yaml for the identities of nodes.                     *)
RootCollides ==
  \E d \in layout.root :
    d.section \in {"resources", "subflows"} /\ d.name[1] \in Aliases \cup {Physical}

(* Mutant: only declarations of the root and a module collide.             *)
CollideWithRoot ==
  \E d, e \in Merged : d.owner = "root" /\ e.owner # "root" /\ d.section = e.section /\ d.at = e.at

Collide == \E d, e \in Merged : d # e /\ d.section = e.section /\ d.at = e.at

(* What a reference finds in the merged scenario.  An alias is a resource  *)
(* of the root, a map of the physical names of its module's resources.     *)
FoundResource(to) ==
  CASE to[1] = Physical ->
         {d \in composed : d.section = "resources" /\ d.at = SubSeq(to, 1, 3)}
    [] to[1] \in Aliases /\ Len(to) > 1 ->
         {d \in composed : d.section = "resources" /\ d.at = <<Physical, to[1], to[2]>>}
    [] to[1] \in Aliases /\ Len(to) = 1 ->
         {d \in composed : d.section = "resources" /\ d.owner = to[1]}
    [] OTHER -> {d \in composed : d.section = "resources" /\ d.at = <<to[1]>>}

(* Validators and overrides name resources like "$resource" does.  Each    *)
(* node of a path is a reference: a fault matches where all of them are.   *)
Section(kind) ==
  CASE kind \in {"$ref", "$resource"} -> "resources"
    [] kind = "subflow" -> "subflows"
    [] kind \in {"transition", "selector", "subflow_path"} -> "steps"
    [] OTHER -> "constraints"

Found(ref) ==
  IF Section(ref.kind) = "resources" THEN FoundResource(ref.to)
  ELSE {d \in composed : d.section = Section(ref.kind) /\ d.at = ref.to}

Merge ==
  /\ phase = "modules" /\ reading = "none" /\ DOMAIN loaded = Aliases
  /\ IF RootCollides \/ Collide THEN Refuse("collision")
     ELSE /\ composed' = Merged /\ phase' = "compile"
          /\ UNCHANGED <<layout, sizes, code, reading, loaded, accepted, first>>

(* parse_yaml knows the steps faults select, of the root in the root alone,*)
(* and compile_document the subflows and transitions.  That the nodes of a *)
(* path are there is checked by nobody.                                    *)
Compile ==
  /\ phase = "compile"
  /\ LET Unknown(kind) ==
           \E d \in composed : \E r \in d.refs :
             r.kind = kind /\ {e \in Found(r) : kind = "selector" /\ d.owner = "root"
                                                  => e.owner = "root"} = {}
     IN IF \E kind \in {"selector", "subflow", "transition"} : Unknown(kind)
        THEN Refuse("invalid")
        ELSE /\ phase' = "composed"
             /\ UNCHANGED <<layout, sizes, code, reading, loaded, accepted, composed, first>>

(* Mutant: modules are identified by their content.                        *)
IdentityOfContents == <<layout.root, {loaded[a] : a \in Aliases}>>

(* composed_suite_hash: the root and, for every alias, what it declares.   *)
Identity == <<layout.root, loaded>>

-----------------------------------------------------------------------------
(* Somebody appends to a file that is going to be read.                    *)
Grow(s) ==
  /\ phase \in {"root", "modules"} /\ first = <<>> /\ sizes[s] <= MaxFile /\ accepted[s] = 0
  /\ sizes' = [sizes EXCEPT ![s] = @ + 1]
  /\ UNCHANGED <<layout, phase, code, reading, loaded, accepted, composed, first>>

(* The same or another layout is loaded in a second process.               *)
Reload ==
  /\ phase = "composed" /\ first = <<>>
  /\ first' = <<Identity, composed>>
  /\ \E l \in Layouts :
       /\ layout' = l /\ sizes' = [s \in DOMAIN l.files \cup {"root"} |-> 1]
       /\ accepted' = [s \in DOMAIN l.files \cup {"root"} |-> 0]
  /\ phase' = "root" /\ loaded' = <<>> /\ composed' = {}
  /\ UNCHANGED <<code, reading>>

Init ==
  /\ layout \in Layouts
  /\ sizes = [s \in DOMAIN layout.files \cup {"root"} |-> 1]
  /\ accepted = [s \in DOMAIN layout.files \cup {"root"} |-> 0]
  /\ phase = "root" /\ code = "none" /\ reading = "none"
  /\ loaded = <<>> /\ composed = {} /\ first = <<>>

Next ==
  \/ ReadRoot \/ ReadModule \/ Merge \/ Compile \/ Reload
  \/ \E a \in Aliases : Stat(a)
  \/ \E s \in DOMAIN sizes : Grow(s)

Spec == Init /\ [][Next]_vars
-----------------------------------------------------------------------------
TypeOK ==
  /\ phase \in {"root", "modules", "compile", "composed", "refused"}
  /\ code \in {"none", "bound", "missing", "type", "declaration", "collision", "invalid"}
  /\ (phase = "refused") = (code # "none")
  /\ DOMAIN loaded \subseteq Aliases /\ reading \in (Aliases \ DOMAIN loaded) \cup {"none"}
  /\ composed # {} => DOMAIN loaded = Aliases

(* Whatever files grow to while they are read, no more than the bounds is  *)
(* ever accepted.                                                          *)
AcceptedWithinBounds ==
  /\ DOMAIN loaded = {} \/ Total <= MaxAggregate
  /\ \A s \in DOMAIN accepted : accepted[s] <= MaxFile

(* What a reference means where it is written: a declaration of its own    *)
(* file before the namespace of an alias.                                  *)
DeclarationsOf(owner) == IF owner = "root" THEN layout.root ELSE loaded[owner]
Names(owner, ref) ==
  {d \in DeclarationsOf(owner) :
     d.section = Section(ref.kind)
     /\ d.name = IF d.section = "resources" THEN <<ref.to[1]>> ELSE ref.to}
Meaning(owner, ref) ==
  IF Names(owner, ref) # {} THEN {<<owner, d.name>> : d \in Names(owner, ref)}
  ELSE IF ref.to[1] \notin Aliases THEN {}
  ELSE IF Len(ref.to) = 1
  THEN {<<ref.to[1], d.name>> : d \in {e \in loaded[ref.to[1]] : e.section = "resources"
                                                              /\ Section(ref.kind) = "resources"}}
  ELSE {<<ref.to[1], d.name>> : d \in Names(ref.to[1], [ref EXCEPT !.to = Tail(ref.to)])}

Written(d) ==
  (CHOOSE e \in DeclarationsOf(d.owner) : e.section = d.section /\ e.name = d.name).refs
NamesApart == \A e \in composed : e.name[1] \notin Aliases

Finds(d, ref) ==
  LET to == IF d.owner = "root" THEN ref.to ELSE Rewritten(d.owner, ref)
  IN {<<e.owner, e.name>> : e \in Found([ref EXCEPT !.to = to])}

(* In a composed scenario every reference but the nodes of a path finds    *)
(* what it means where it was written, in whichever section and whatever   *)
(* else was merged, as long as no module uses the name of an alias for its *)
(* own.                                                                    *)
LinksAreFaithful ==
  phase = "composed" /\ NamesApart =>
    \A d \in composed : \A ref \in Written(d) :
      ref.kind # "subflow_path" => Finds(d, ref) = Meaning(d.owner, ref)

(* The nodes of a path mean what they would mean in the root, also in the  *)
(* fault of a module: a name without an alias finds a node of the root or  *)
(* none, and never a node of the module it was written in.                 *)
PathsAreOfTheRoot ==
  phase = "composed" /\ NamesApart =>
    \A d \in composed : \A ref \in Written(d) :
      ref.kind = "subflow_path" =>
        /\ Finds(d, ref) = Meaning("root", ref)
        /\ ref.to[1] \notin Aliases => \A f \in Finds(d, ref) : f[1] = "root"

(* Nothing is merged, overwritten or lost.                                 *)
NothingIsLost ==
  phase = "composed" =>
    /\ \A d, e \in composed : d.section = e.section /\ d.at = e.at => d = e
    /\ \A d \in composed : d.owner \in Aliases \cup {"root"}
    /\ \A o \in Aliases \cup {"root"} :
         Cardinality({d \in composed : d.owner = o}) = Cardinality(DeclarationsOf(o))

(* Resources depend on each other in a circle in the composed scenario     *)
(* only if they do where they were written: namespaces, each of which is   *)
(* a resource that depends on all of its module's, add no cycle.           *)
DependsOn(to) ==
  IF to[1] \in Aliases THEN {d \in composed : d.owner = to[1] /\ d.section = "resources"}
  ELSE FoundResource(to)
NoNewCycles ==
  phase = "composed" /\ NamesApart =>
    \A S \in SUBSET {d \in composed : d.section = "resources"} :
      S # {} /\ (\A d \in S : \E ref \in d.refs : ref.kind = "$ref" /\ DependsOn(ref.to) \cap S # {}) =>
        \E T \in SUBSET S :
          T # {} /\ \A d \in T : \E ref \in Written(d) : ref.kind = "$ref" /\
            \E e \in T : <<e.owner, e.name>> \in Meaning(d.owner, ref)

(* Wherever the files are and in whatever order they are read, the         *)
(* identity says what was composed.                                        *)
IdentityIsContent ==
  phase = "composed" /\ first # <<>> => (Identity = first[1] => composed = first[2])

(* What is composed is what was written, the nodes of paths aside.         *)
CompositionIsFaithful ==
  /\ TypeOK /\ AcceptedWithinBounds /\ LinksAreFaithful /\ PathsAreOfTheRoot
  /\ NothingIsLost /\ NoNewCycles /\ IdentityIsContent
=============================================================================
