---------------------------- MODULE MCUpdateFlow ----------------------------
(***************************************************************************)
(* Instance of UpdateFlow for TLC.  Release a1 is running, a2 is published,  *)
(* x is anything else.  The manifest and the host depart from the honest     *)
(* ones in several places at once.                                          *)
(***************************************************************************)
EXTENDS UpdateFlow, TLC

CONSTANTS a1, a2, x, t1, t2, tx

MCBytes == {a1, a2, x}
MCTars == {t1, t2, tx}
MCSizeOf == (a1 :> 3) @@ (a2 :> 3) @@ (x :> 5) @@ (t1 :> 6) @@ (t2 :> 6) @@ (tx :> 9)
MCTarOf == (a1 :> t1) @@ (a2 :> t2) @@ (x :> tx)

GoodRecipe == (t1 :> a1) @@ (t2 :> a2) @@ (tx :> x)
OtherRecipe == (t1 :> a1) @@ (t2 :> x) @@ (tx :> x)

Of(bytes) == [bytes |-> bytes, size |-> MCSizeOf[bytes]]
From(old, new) == [from |-> old, to |-> new]

GoodTarPatch == [installer |-> Of(a1), tar |-> Of(t1), file |-> From(t1, t2)]
GoodLayer == [supported |-> TRUE, target |-> Of(t2), patch |-> GoodTarPatch]

SomeLayers ==
  {Nil, GoodLayer,
   [GoodLayer EXCEPT !.supported = FALSE],
   [GoodLayer EXCEPT !.patch = Nil],
   [GoodLayer EXCEPT !.target = Of(tx)],
   [GoodLayer EXCEPT !.patch.tar = Of(tx), !.patch.installer = Of(x)],
   [GoodLayer EXCEPT !.patch.file = From(t1, tx)]}

SomePatches ==
  {Nil, [base |-> Of(a1), file |-> From(a1, a2)],
   [base |-> Nil, file |-> From(a1, a2)],
   [base |-> Of(x), file |-> From(a1, a2)],
   [base |-> Of(a1), file |-> From(a1, x)]}

SomeCopies ==
  {Nil, [file |-> From(Nil, a2), size |-> 1], [file |-> From(Nil, a2), size |-> 3],
   [file |-> From(Nil, x), size |-> 1]}

Publish(layer, patch, copy) ==
  [target |-> Of(a2), sameSig |-> TRUE, tar |-> layer, patch |-> patch, copy |-> copy]

Best == Publish(GoodLayer, [base |-> Of(a1), file |-> From(a1, a2)],
                [file |-> From(Nil, a2), size |-> 1])

\* Every layer with every patch; then one departure at a time elsewhere.
SomeEntries ==
  {[Best EXCEPT !.tar = layer, !.patch = patch] : layer \in SomeLayers, patch \in SomePatches}
  \cup {Publish(Nil, Nil, copy) : copy \in SomeCopies}
  \cup {[Best EXCEPT !.target = target] :
          target \in {[bytes |-> a2, size |-> 2], [bytes |-> a2, size |-> 20]}}
  \cup {[Best EXCEPT !.target = Of(x), !.patch.file = From(a1, x), !.copy.file = From(Nil, x)]}

AsSigned(repr) == [ours |-> TRUE, artifact |-> a2, repr |-> repr]

UsualSignatures ==
  {[over |-> a2, binding |-> binding] : binding \in {AsSigned("tar"), AsSigned("opaque"), Legacy}}

OtherSignatures ==
  {[over |-> a2, binding |-> binding] :
     binding \in {Malformed, [AsSigned("tar") EXCEPT !.ours = FALSE],
                  [AsSigned("opaque") EXCEPT !.artifact = x]}}
  \cup {[over |-> x, binding |-> AsSigned("tar")], [over |-> Nil, binding |-> AsSigned("opaque")]}

Release(entry, sig) ==
  [version |-> "newer", sig |-> sig, parses |-> TRUE, sameVersion |-> TRUE,
   matches |-> {1}, delta |-> (1 :> entry) @@ (2 :> Nil)]

Plain == Release(Best, [over |-> a2, binding |-> AsSigned("tar")])

MCDocuments ==
  {Release(entry, sig) : entry \in SomeEntries, sig \in UsualSignatures}
  \cup {Release(entry, sig) : entry \in {Nil, Best, [Best EXCEPT !.tar = Nil]}, sig \in OtherSignatures}
  \cup {[Plain EXCEPT !.version = version] : version \in {"same", "older", "unordered"}}
  \cup {Release([Best EXCEPT !.sameSig = FALSE], Plain.sig)}
  \cup {[Plain EXCEPT !.parses = FALSE], [Plain EXCEPT !.sameVersion = FALSE],
        [Plain EXCEPT !.matches = {}], [Plain EXCEPT !.matches = {2}],
        [Plain EXCEPT !.matches = {1, 2}, !.delta[2] = Best],
        [Plain EXCEPT !.matches = {1, 2}, !.delta[2] = [Best EXCEPT !.target = Of(x)]]}

Bare == [cache |-> FALSE, cached |-> Nil, repr |-> "tar", base |-> Nil, app |-> Nil,
         seed |-> Nil, recipe |-> GoodRecipe]

Caching == [Bare EXCEPT !.cache = TRUE, !.cached = a1]

MCHosts ==
  {Bare, Caching,
   [Caching EXCEPT !.cached = x],
   [Caching EXCEPT !.base = a1],
   [Caching EXCEPT !.recipe = OtherRecipe],
   [Caching EXCEPT !.recipe = OtherRecipe, !.seed = a1],
   [Caching EXCEPT !.recipe = OtherRecipe, !.base = a1],
   [Caching EXCEPT !.cached = Nil, !.app = t1],
   [Bare EXCEPT !.app = t1, !.seed = a1, !.recipe = OtherRecipe],
   [Bare EXCEPT !.app = tx, !.seed = x],
   [Caching EXCEPT !.repr = "opaque"],
   [Caching EXCEPT !.repr = "opaque", !.cached = Nil, !.seed = a1]}

EveryFault == {"io", "net", "installer", "tamper"}
=============================================================================
