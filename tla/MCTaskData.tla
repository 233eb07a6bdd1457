----------------------------- MODULE MCTaskData -----------------------------
(***************************************************************************)
(* Instances of TaskData for TLC: every metadata over three files, the     *)
(* targets "image" and "tool" and two names that files need, up to         *)
(* MaxProviders providers of a name.  Every file also needs "gcc", which   *)
(* nothing provides and ASSUME_PROVIDED names.                             *)
(***************************************************************************)
EXTENDS TaskData, TLC

CONSTANTS MaxProviders, IdependsOf

Name == {"lib", "dev"}
NameSeqs == {<<>>, <<"lib">>, <<"dev">>, <<"lib", "dev">>}

ProviderSeqs == {p \in UNION {[1 .. n -> Fn] : n \in 0 .. MaxProviders} : IsInjective(p)}

\* app and lib provide the image: others are the same up to names.  app alone
\* provides the tool, which no file needs.
ImageProviders == <<"app.bb", "lib.bb">>

Caches ==
    {[providers |-> [image |-> ImageProviders, tool |-> <<"app.bb">>, lib |-> l, dev |-> d, gcc |-> <<>>],
      deps |-> [f \in Fn |-> n[f] \o <<"gcc">>], idepends |-> p] :
        l \in ProviderSeqs, d \in ProviderSeqs,
        n \in [Fn -> NameSeqs], p \in IdependsOf}

\* Nobody provides the image.
NoImage ==
    {[providers |-> [image |-> <<>>, tool |-> <<"app.bb">>, lib |-> <<>>, dev |-> <<>>, gcc |-> <<>>],
      deps |-> [f \in Fn |-> n[f] \o <<"gcc">>], idepends |-> [f \in Fn |-> <<>>]] : n \in [Fn -> NameSeqs]}
SomeCaches == Caches \cup NoImage

ImageOnly == <<"image">>
ImageAndTool == <<"image", "tool">>

NoIdepends == {[f \in Fn |-> <<>>]}
OneIdepend == {[f \in Fn |-> IF f = g THEN <<t>> ELSE <<>>] : g \in Fn, t \in Name \ RunTarget}
AltIdepend == NoIdepends \cup {[f \in Fn |-> IF f = "alt.bb" THEN <<"lib">> ELSE <<>>]}
=============================================================================
