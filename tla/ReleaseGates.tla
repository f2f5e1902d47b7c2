----------------------------- MODULE ReleaseGates -----------------------------
(***************************************************************************)
(* What delta-release and release-check both refuse before they look at any  *)
(* file of the release (crates/delta-release: url_policy.rs and              *)
(* version_contract.rs): URLs a client would not fetch, and an application   *)
(* whose own version is not the one the tag names.                           *)
(***************************************************************************)
EXTENDS ReleaseIdentity

CONSTANT Nil  \* not there

-----------------------------------------------------------------------------
(* url_policy.rs *)

Schemes == {"https", "http", "ftp", "unparsable"}
Hosts == {"127.0.0.1", "::1", "localhost", "another"}
Urls == [scheme : Schemes, host : Hosts]

IsLoopback(url) == url.host # "another"

\* check_url, under the policy the insecure flag selects.
Publishable(url, insecure) ==
  \/ url.scheme = "https"
  \/ url.scheme = "http" /\ insecure /\ IsLoopback(url)

-----------------------------------------------------------------------------
(* version_contract.rs.  A tauri.conf.json is its identifier and version; the *)
(* Cargo.toml beside it is its lines: a section header [header |-> name], a    *)
(* version [version |-> text], [inherits |-> "workspace"], or Nil.             *)

Says(line, what) == line # Nil /\ DOMAIN line = {what}

\* Whether line i of the file is in its [package] section.
InPackage(lines, i) ==
  \E j \in 1 .. i : /\ Says(lines[j], "header") /\ lines[j].header = "package"
                    /\ \A k \in j + 1 .. i : ~Says(lines[k], "header")

\* read_package_version: the first line there that speaks of a version, unless
\* it only inherits one.
PackageVersion(lines) ==
  LET speaks == {i \in DOMAIN lines :
                   /\ InPackage(lines, i)
                   /\ Says(lines[i], "version") \/ Says(lines[i], "inherits")}
  IN  IF speaks = {} THEN Nil
      ELSE LET first == lines[CHOOSE i \in speaks : \A j \in speaks : i <= j]
           IN  IF Says(first, "version") THEN first.version ELSE Nil

\* read_app_facts
Agrees(config) ==
  /\ config.identifier # Nil /\ config.version # Nil
  /\ PackageVersion(config.cargo) # Nil
  /\ config.version = PackageVersion(config.cargo)

VersionFromTag(tag) == [tag EXCEPT !.pre = ""]

\* check_app_version
InContract(tag, config) == Agrees(config) /\ config.version = VersionFromTag(tag)

\* The application a tool works for, by --app-config, --app-id or both.
AppOf(appId, config) == IF config # Nil THEN config.identifier ELSE appId
Settled(appId, config) ==
  config # Nil => appId \in {Nil, config.identifier}
=============================================================================
