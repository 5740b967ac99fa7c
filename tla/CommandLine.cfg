\* Every command line of up to three flags.
SPECIFICATION CommandSpec
CONSTANT MaxFlags = 3
INVARIANT NoFlagIsIgnored
