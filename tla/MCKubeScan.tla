----------------------------- MODULE MCKubeScan -----------------------------
EXTENDS KubeScan

\* Two adapters: one that pulls images itself, one that never needs a network.
MCSelected == <<"trivy", "gitleaks">>
MCKinds == {"repository", "image"}
MCNeedsNetwork == [k \in {"repository", "image", "endpoint"} |->
                     IF k = "image" THEN {"trivy"} ELSE {}]
=============================================================================
