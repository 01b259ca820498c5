----------------------------- MODULE MCGateway -----------------------------
EXTENDS Gateway, TLC
CONSTANTS s1, s2, film1, film2, r1, r2
\* One film on two servers: each virtual id has the other copy as instance.
MCSrvOf == (film1 :> s1) @@ (film2 :> s2)
MCInst == (film1 :> {film2}) @@ (film2 :> {film1})
\* Either one request of any kind, streams with ids of both servers among them,
\* or two of players.
MCMixes ==
    {(r1 :> DOMAIN Sources \cup {"loose"}) @@ (r2 :> {}),
     (r1 :> {"progress", "stream"}) @@ (r2 :> {"info", "stopped"})}
\* Exchanging the servers together with their copies of the film.
Symmetry == {f \in Permutations({s1, s2, film1, film2}) :
                f[s1] \in {s1, s2} /\ (f[s1] = s1 <=> f[film1] = film1)
                /\ f[film1] \in {film1, film2}}
============================================================================
