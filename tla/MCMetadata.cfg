SPECIFICATION Spec
CONSTANT Inputs <- MCInputs
INVARIANT TypeOK
INVARIANT OddNumbersAreExplicit
INVARIANT ExplicitValuesWin
