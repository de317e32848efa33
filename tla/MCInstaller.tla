------------------------------ MODULE MCInstaller ------------------------------
\* Two invocations of install.sh on two homes, with a Skill of two files.
EXTENDS Installer, TLC

CONSTANTS i1, i2, h1, h2, script_file

MCInstallers == {i1, i2}

MCHomes == {h1, h2}

MCPayload == {Skill, script_file}

Symmetry == Permutations(MCInstallers) \cup Permutations(MCHomes)

================================================================================
