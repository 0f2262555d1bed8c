------------------------------ MODULE MCScripts ------------------------------
(* A pull request with one comment that is edited and one posted anew; two *)
(* apps with a password and sign-in; a wait of eight seconds.              *)
EXTENDS Scripts
CONSTANTS edited, hiding, a1, a2, pw, id, key
=============================================================================
