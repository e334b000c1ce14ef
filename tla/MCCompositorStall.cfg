SPECIFICATION Spec
CONSTANTS
    Durations = {3}
    Scale = 9
    MaxGap = 6
    MaxBack = 0
    MaxLayers = 2
    MaxAdds = 1
PROPERTY CompletedFadeInShows
