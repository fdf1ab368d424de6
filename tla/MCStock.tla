------------------------------- MODULE MCStock -------------------------------
EXTENDS Lots

\* Every order takes three units of one article.
OneIngredient == [o \in Orders |-> CHOOSE a \in Articles : TRUE]
ThreeEach == [o \in Orders |-> 3]
=============================================================================
