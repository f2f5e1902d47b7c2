--------------------------- MODULE MCReleaseBuild ---------------------------
(***************************************************************************)
(* Instance of the release tool for TLC: a mac platform with tarballs and a  *)
(* win platform whose second release is packed differently from its first.   *)
(***************************************************************************)
EXTENDS ReleaseToClient, TLC

CONSTANTS
  m1, m2, m2b, \* mac: the first release, the second, a rebuild of the second
  m2x,         \* the second, compressed by a toolchain the recipe does not match
  m2l,         \* the second, with a tar above the limit
  w2,          \* win: an installer that is not a tarball
  t1, t2, t2b, t2l  \* tars: of m1; of m2 and m2x; of m2b; of m2l

MCInstallers == {m1, m2, m2b, m2x, m2l, w2}
MCTars == {t1, t2, t2b, t2l}
MCTarOf == (m1 :> t1) @@ (m2 :> t2) @@ (m2b :> t2b) @@ (m2x :> t2) @@ (m2l :> t2l) @@ (w2 :> Nil)
MCRecompressed == (t1 :> m1) @@ (t2 :> m2) @@ (t2b :> m2b) @@ (t2l :> m2l)
MCSizeOf == [c \in MCInstallers \cup MCTars |-> 1]
Pairs == {<<m1, m2b>>}
Large == {t2l}
Every == {"io", "crash", "engine"}

MCFamily == {"delta-v1", "delta-v2"}
Version(v) == Text(v, 5, {"0-9", "."})
MCVersionText == [v \in {0, 1, 2} |-> Version(v)]
Built == Text(2, 480, {"0-9", ".", "a-f", "+"})  \* with very long build metadata
MCSemver == {Version(v) : v \in {0, 1, 2}} \cup {Built}
MCPlatformText == ("mac" :> Text("mac", 14, {"a-f", "g-z", "0-9", "-"}))
                  @@ ("win" :> Text("win", 14, {"a-f", "g-z", "0-9", "-", "_"}))
MCDigestText == [c \in MCInstallers |-> Text(c, 64, {"0-9", "a-f"})]
MCAppId == Text("app", 15, {"a-f", "g-z", "."})
Other == Text("other", 15, {"a-f", "g-z", "."})

Url(scheme, host) == [scheme |-> scheme, host |-> host]
Public == Url("https", "another")
Rehearsal == Url("http", "::1")
At(url) == [installer |-> url, patch |-> url, tar |-> url, copy |-> url]

\* The application's two files, for version 2.
Header(name) == [header |-> name]
Cargo(line) == <<Header("dependencies"), [version |-> Version(0)], Header("package"), Nil, line>>
Config(line) == [identifier |-> Value(MCAppId), version |-> Version(2), cargo |-> Cargo(line)]
Own == [version |-> Version(2)]
Tagged == [Version(2) EXCEPT !.pre = "v"]

Base == [platform |-> "mac", version |-> 2, installer |-> m2, preds |-> << >>,
         tar |-> "no", strict |-> FALSE, copy |-> FALSE, dry |-> FALSE,
         insecure |-> FALSE, urls |-> At(Public), appId |-> Nil, config |-> Config(Own),
         says |-> [version |-> Value(Version(2)), platform |-> Value(MCPlatformText["mac"])]]
From1 == [from |-> 1, base |-> m1]
From0 == [from |-> 0, base |-> m2b]

\* Command lines that go wrong, or would if nothing refused them.
Strange == {
  \* --app-id with a space, that says more fields than it should
  [Base EXCEPT !.config = Nil, !.appId = [head |-> MCAppId, rest |-> <<Word("v:", Version(1))>>]],
  \* --target-version v2: within the contract, and not a version that can be signed
  [Base EXCEPT !.says.version = Value(Tagged)],
  [Base EXCEPT !.config = Nil, !.appId = Value(MCAppId), !.says.version = Value(Built)],
  [Base EXCEPT !.config = Config([inherits |-> "workspace"])],
  [Base EXCEPT !.appId = Value(Other)],
  [Base EXCEPT !.config = Nil, !.appId = Value(Other)],
  [Base EXCEPT !.urls = At(Rehearsal)],
  [Base EXCEPT !.urls.copy = Rehearsal, !.copy = TRUE],
  [Base EXCEPT !.urls = At(Url("http", "another")), !.insecure = TRUE],
  [Base EXCEPT !.urls.patch = Rehearsal, !.insecure = TRUE, !.preds = <<From1>>]}

Win == [Base EXCEPT !.platform = "win", !.says.platform = Value(MCPlatformText["win"])]
First == [Base EXCEPT !.version = 1, !.config = Nil, !.appId = Value(MCAppId),
                      !.says.version = Value(Version(1))]

MCRequests == Strange \cup {
  Base,
  [Base EXCEPT !.preds = <<From1>>, !.tar = "optional", !.copy = TRUE],
  [Base EXCEPT !.preds = <<From1, From0>>, !.tar = "optional"],
  [Base EXCEPT !.installer = m2b, !.preds = <<From1>>, !.strict = TRUE],
  [Base EXCEPT !.installer = m2b, !.preds = <<From1>>, !.tar = "required"],
  [Base EXCEPT !.installer = m2b, !.copy = TRUE, !.dry = TRUE],
  [Base EXCEPT !.installer = m2x, !.preds = <<From1>>, !.tar = "optional"],
  [Base EXCEPT !.installer = m2l, !.preds = <<From1>>, !.tar = "optional"],
  [Base EXCEPT !.installer = w2, !.preds = <<From1>>],
  [Win EXCEPT !.installer = w2, !.copy = TRUE],
  [Win EXCEPT !.preds = <<[from |-> 1, base |-> m2x]>>, !.tar = "optional"],
  [First EXCEPT !.installer = m1],
  [First EXCEPT !.preds = <<From1>>]}
=============================================================================
