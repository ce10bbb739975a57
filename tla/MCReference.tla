----------------------------- MODULE MCReference -----------------------------
(* Every form of a reference: with and without a registry, its port, an    *)
(* owner, a tag, a digest; two that share an entry, two of one name; the   *)
(* mirrors of TestRewriteForMirror, in TLS, in HTTP, and without sync.     *)
EXTENDS Reference

Slash(a, b) == a \o <<"/">> \o b
Tagged(a, t) == a \o <<":", t>>
Zot == <<"zot.weft.internal", ":", "8080">>
Local == <<"127.0.0.1", ":", "5000">>
Near == <<"10.255.2.30", ":", "8080">>

MCWords == STRING
MCRefs ==
  { <<"app">>, Tagged(<<"app">>, "1"),
    Slash(<<"docker.io">>, Tagged(<<"app">>, "1")),
    Slash(<<"docker.io">>, Slash(<<"team">>, <<"app">>)),
    Slash(<<"team">>, <<"app">>), Slash(<<"ghcr.io">>, Slash(<<"team">>, <<"app">>)),
    Slash(<<"ghcr.io">>, Slash(<<"team">>, <<"app", "@", "sha256", ":", "abc">>)),
    Slash(<<"app">>, <<"1">>),
    Slash(Zot, Slash(<<"team">>, Tagged(<<"app">>, "2"))),
    Slash(Local, <<"app">>), Slash(Local, Slash(<<"team">>, <<"app">>)) }
MCDotted == {"docker.io", "registry-1.docker.io", "ghcr.io", "zot.weft.internal", "127.0.0.1",
             "10.255.2.30"}
MCMirrors ==
  { << >>, <<"://">>, Zot \o <<"/">>, <<"http", "://">> \o Near, Local }
MCSyncHosts == {Zot, Near}
MCPlainHosts == {Local, Near}

For(kind, arch, os) == [kind |-> kind, arch |-> arch, os |-> os]
MCDescriptors ==
  { [kind |-> "manifest"],
    [kind |-> "index", of |-> <<For("manifest", "", ""), For("manifest", "amd64", "linux"),
                                For("manifest", "arm64", "windows"), For("manifest", "arm64", "linux")>>],
    [kind |-> "index", of |-> <<For("manifest", "unknown", "unknown"), For("manifest", "arm64", "")>>],
    [kind |-> "index", of |-> <<For("manifest", "amd64", "linux")>>],
    [kind |-> "index", of |-> <<For("index", "arm64", "linux")>>] }
=============================================================================
