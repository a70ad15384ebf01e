----------------------------- MODULE MCPhaseData -----------------------------
EXTENDS PhaseData

Asked(mode) == [mode |-> mode, sourceOnly |-> FALSE, live |-> TRUE,
                provision |-> TRUE, identities |-> 2, verified |-> FALSE,
                surface |-> << "items" >>, spec |-> TRUE, source |-> FALSE,
                bom |-> TRUE, scores |-> << 3, 1, 0 >>]

\* Gated runs of all attacks on a route, of those without identities on two
\* routes, and of all source phases; an ungated one of everything that needs
\* no identities; the pre-commit scan.
SourceRequest == [Asked("standard") EXCEPT !.sourceOnly = TRUE, !.live = FALSE,
                                           !.source = TRUE]
NoIdentities(asked) == [asked EXCEPT !.provision = FALSE, !.identities = 0,
                                     !.live = FALSE]
SmallRequests ==
  { Asked("targeted"),
    [NoIdentities(Asked("targeted")) EXCEPT !.surface = << "items", "search" >>],
    [NoIdentities(Asked("targeted")) EXCEPT !.source = TRUE],
    SourceRequest,
    [NoIdentities(Asked("continuous")) EXCEPT !.verified = TRUE, !.spec = FALSE,
                                              !.scores = << 3, 0, 0 >>],
    [NoIdentities(Asked("quick")) EXCEPT !.sourceOnly = TRUE, !.bom = FALSE] }
=============================================================================
