---------------------------- MODULE MCOnboarding ----------------------------
EXTENDS Onboarding

\* A process on a laptop, and one behind a proxy that ends TLS.
local     == Origin("http", "127.0.0.1:8787")
localhost == Origin("http", "localhost:8787")
public    == Origin("https", "lab.example")
idp       == DefaultIssuer(Origin("https", "idp.example"))

WithSlash(u) == [u EXCEPT !.slash = "/"]
WithQuery(u) == [u EXCEPT !.query = "?q=1"]

Shapes(origin) ==
    {DefaultResource(origin), WithSlash(DefaultResource(origin)),
     WithQuery(DefaultResource(origin)), DefaultIssuer(origin), WithQuery(DefaultIssuer(origin))}

Issuers == {DefaultIssuer(local), DefaultIssuer(public), WithSlash(DefaultIssuer(public)),
            WithQuery(DefaultIssuer(public)), Url(public, "/tenant", "", "")}

Near(origin) == IF origin = public THEN {public} ELSE {local, localhost}

\* In local mode everything varies; in external mode what createIssuerFactory
\* looks at.
LocalDeployments ==
    {d \in [mode : {"local"}, requireAuth : BOOLEAN, pointing : BOOLEAN, forwarded : BOOLEAN,
            resource : {DefaultResource(local)} \cup Shapes(public), issuer : Issuers,
            servers : {{}, {DefaultIssuer(public)}, {DefaultIssuer(public), idp}},
            endpoint : {DefaultResource(local), DefaultResource(localhost)} \cup Shapes(public),
            reaches : {Near(local), Near(public)}, idp : {None}, jwks : {FALSE}] :
        d.reaches = Near(d.endpoint.origin)}

ExternalDeployments ==
    [mode : {"external"}, requireAuth : {TRUE}, pointing : {TRUE}, forwarded : {TRUE},
     resource : {DefaultResource(public)}, issuer : {idp, WithSlash(idp), DefaultIssuer(public)},
     servers : {{idp}}, endpoint : {DefaultResource(public)}, reaches : {Near(public)},
     idp : {None, idp, WithSlash(idp)}, jwks : BOOLEAN]

MCDeployments == LocalDeployments \cup ExternalDeployments
=============================================================================
