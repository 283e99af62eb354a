------------------------------ MODULE BrandKits ------------------------------
(***************************************************************************)
(* The versions of one brand kit.  A version is immutable; an editor who    *)
(* saves a content gets the version that has it or appends the next number. *)
(* The number is the greatest one read plus one, and two editors may read   *)
(* the same: the unique constraints of brand_kit_versions let one of them   *)
(* pass, the other reads again, MaxRetries times.  A product is bound to    *)
(* one version.                                                             *)
(***************************************************************************)
EXTENDS Naturals, FiniteSets, FiniteSetsExt

CONSTANTS
  Editors,      \* requests that save a version
  Contents,     \* contents after normalization: equal ones have one digest
  Products,     \* products that may be bound to a version
  MaxRetries    \* MAX_VERSION_NUMBER_RETRIES

ASSUME BrandAssumption == MaxRetries \in Nat /\ Contents # {}

VARIABLES
  kitVersions,  \* the rows of brand_kit_versions
  binding,      \* per product, the version number it is bound to, or 0
  editor        \* what each request is at

kitVars == <<kitVersions, binding, editor>>

KitVersion == [number : Nat, content : Contents]
Editor == [at : {"idle", "read", "insert", "reread", "saved", "gave up", "died"},
           content : Contents, number : Nat, tries : 0..MaxRetries, passed : Nat]

KitTypeOK ==
  /\ kitVersions \subseteq KitVersion
  /\ binding \in [Products -> Nat]
  /\ editor \in [Editors -> Editor]

FirstContent == CHOOSE content \in Contents : TRUE

\* create stores the kit and its version 1 in one transaction.
KitInit ==
  /\ kitVersions = {[number |-> 1, content |-> FirstContent]}
  /\ binding = [p \in Products |-> 0]
  /\ editor = [e \in Editors |-> [at |-> "idle", content |-> FirstContent, number |-> 0,
                                  tries |-> 0, passed |-> 0]]

-----------------------------------------------------------------------------
(* create_version *)

EditorAt(e, at) == editor[e].at = at
EditorGoes(e, at) == editor' = [editor EXCEPT ![e].at = at]
HasContent(content) == \E v \in kitVersions : v.content = content

NextVersionNumber == Max({v.number : v \in kitVersions}) + 1

StartEdit(e) ==
  /\ EditorAt(e, "idle")
  /\ \E content \in Contents :
       editor' = [editor EXCEPT ![e] = [@ EXCEPT !.at = "read", !.content = content]]
  /\ UNCHANGED <<kitVersions, binding>>

\* get_version_by_digest, else next_version_number; the read transaction is ended.
ReadVersions(e) ==
  /\ EditorAt(e, "read")
  /\ IF HasContent(editor[e].content) THEN EditorGoes(e, "saved")
     ELSE editor' = [editor EXCEPT ![e] =
                      [@ EXCEPT !.at = "insert", !.number = NextVersionNumber]]
  /\ UNCHANGED <<kitVersions, binding>>

\* Mutant: only the contents are unique.
UniqueDigests(row) == ~HasContent(row.content)
UniqueVersion(row) ==
  \A v \in kitVersions : v.number # row.number /\ v.content # row.content

\* passed: the other editors that got a version in while this one tried.
AppendVersion(e) ==
  /\ EditorAt(e, "insert")
  /\ LET row == [number |-> editor[e].number, content |-> editor[e].content]
     IN IF UniqueVersion(row)
        THEN /\ kitVersions' = kitVersions \cup {row}
             /\ editor' = [d \in Editors |->
                  CASE d = e -> [editor[e] EXCEPT !.at = "saved"]
                    [] d # e /\ EditorAt(d, "insert") ->
                         [editor[d] EXCEPT !.passed = @ + 1]
                    [] OTHER -> editor[d]]
        ELSE UNCHANGED kitVersions /\ EditorGoes(e, "reread")
  /\ UNCHANGED binding

\* Mutant: the first conflict is the last.
MayRetryOnce(e) == FALSE
MayRetry(e) == editor[e].tries < MaxRetries

\* After the rollback: the content may be there by now, or the number is taken.
ResolveConflict(e) ==
  /\ EditorAt(e, "reread")
  /\ \/ HasContent(editor[e].content) /\ EditorGoes(e, "saved")
     \/ /\ ~HasContent(editor[e].content)
        /\ IF MayRetry(e)
           THEN editor' = [editor EXCEPT ![e] =
                            [@ EXCEPT !.at = "read", !.tries = editor[e].tries + 1]]
           ELSE EditorGoes(e, "gave up")
  /\ UNCHANGED <<kitVersions, binding>>

EditorDies(e) ==
  /\ editor[e].at \in {"read", "insert", "reread"}
  /\ EditorGoes(e, "died")
  /\ UNCHANGED <<kitVersions, binding>>

-----------------------------------------------------------------------------
(* bind_product, unbind_product: of the versions that exist *)

BindProduct(p) ==
  /\ \E v \in kitVersions : binding' = [binding EXCEPT ![p] = v.number]
  /\ UNCHANGED <<kitVersions, editor>>

UnbindProduct(p) ==
  /\ binding' = [binding EXCEPT ![p] = 0]
  /\ UNCHANGED <<kitVersions, editor>>

KitNext ==
  \/ \E e \in Editors :
       \/ StartEdit(e) \/ ReadVersions(e) \/ AppendVersion(e) \/ ResolveConflict(e)
       \/ EditorDies(e)
  \/ \E p \in Products : BindProduct(p) \/ UnbindProduct(p)

KitSpec == KitInit /\ [][KitNext]_kitVars

-----------------------------------------------------------------------------
(* Properties *)

\* The history of a kit has no gap and no double: its versions are numbered from 1 on,
\* each content has one version, and a product is bound to one of them.
VersionsAreAHistory ==
  /\ {v.number : v \in kitVersions} = 1..Cardinality(kitVersions)
  /\ Cardinality({v.content : v \in kitVersions}) = Cardinality(kitVersions)
  /\ \A p \in Products : binding[p] \in {0} \cup {v.number : v \in kitVersions}

\* An editor is told that the number remained contested only if a different editor
\* overtook it each time it tried; every other one that lives finds its content saved.
ContestedGivesUp ==
  \A e \in Editors :
    /\ EditorAt(e, "gave up") => editor[e].passed > MaxRetries
    /\ EditorAt(e, "saved") => HasContent(editor[e].content)
=============================================================================
