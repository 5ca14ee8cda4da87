-------------------------- MODULE MCBundleDelivery --------------------------
(***************************************************************************)
(* Small instances of BundleDelivery: a source, a relay and the            *)
(* destination.                                                            *)
(***************************************************************************)
EXTENDS BundleDelivery

CONSTANTS s, r, d, home, away

Hop(m, region, mtu) == [node |-> m, region |-> region, mtu |-> mtu]

\* The applications of the destination register, change their minds and
\* leave, while copies of a bundle arrive.
Registrations ==
    [links |-> {<<s, d>>}, adds |-> {}, failActs |-> {"ABORT", "other"},
     maxIds |-> 2, time |-> 2, bundles |-> 1, tokens |-> 2]

\* The ids of the source go round, and its bundles arrive late, again or not
\* at all.
Ids ==
    [links |-> {<<s, d>>}, adds |-> {}, failActs |-> {},
     maxIds |-> 3, time |-> 2, bundles |-> 3, tokens |-> 1]

\* The source has routes that are too small for its bundles, or turn out
\* larger once a hello adds another.
Fragments ==
    [links |-> {<<s, d>>}, adds |-> {<<s, Hop(d, home, 4)>>, <<s, Hop(d, away, 3)>>},
     failActs |-> {}, maxIds |-> 2, time |-> 2, bundles |-> 3, tokens |-> 1]

\* The destination is reached directly and through a relay with a smaller
\* route.
TwoWays ==
    [links |-> {<<s, r>>, <<s, d>>, <<r, d>>}, adds |-> {<<r, Hop(d, home, 4)>>},
     failActs |-> {}, maxIds |-> 2, time |-> 1, bundles |-> 2, tokens |-> 1]

Scripts == {Registrations, Ids, Fragments, TwoWays}
RegistrationsOnly == {Registrations}
=============================================================================
