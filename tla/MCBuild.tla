------------------------------- MODULE MCBuild -------------------------------
EXTENDS Build, TLC

CONSTANTS b1, b2, t1, t2, plain, http, port, other, path, odd

Symmetry == Permutations(Builds)

(* plain: the host alone; http: the same with a scheme; port: with a port;
   path: with a path; other: another host; odd: no URL. *)
AllURLs == [scheme : {Empty, "http"}, host : {"h", "g"}, port : {Empty, "5000"},
            path : {Empty, "v2"}]

URL(s, h, p, q) == [scheme |-> s, host |-> h, port |-> p, path |-> q]

ParseAll ==
    [a \in Addresses |->
        CASE a = plain -> URL(Empty, "h", Empty, Empty)
          [] a = http  -> URL("http", "h", Empty, Empty)
          [] a = port  -> URL(Empty, "h", "5000", Empty)
          [] a = path  -> URL("http", "h", Empty, "v2")
          [] a = other -> URL(Empty, "g", "5000", Empty)
          [] OTHER     -> None]

(* Every set of credentials. *)
AllCreds == SUBSET Addresses

(* One set of credentials, or none. *)
SomeCreds == {{}, {plain}}

(* A build without a tag, and one with a tag. *)
MaybeTag == {<<>>, <<t1>>}

(* Two builds that may share their tags. *)
SharedTags == {<<t1>>, <<t2, t1>>}

(* The builds with two tags are those with credentials: tags and credentials do
   not depend on each other, and every pair of tag lists and every pair of sets
   of credentials is there. *)
PairedInit ==
    /\ Init
    /\ \A b \in Builds : Len(options[b].tags) = 2 <=> options[b].creds # {}

PairedSpec == PairedInit /\ [][Next]_vars
=============================================================================
